---- MODULE Spec2Model ----
(***************************************************************************)
(* Model of the spatial layer synchronisation engine of urbanuav2:         *)
(*   - the ring sanitizer (ringToDegreesFlat, buildPolygonHierarchy),      *)
(*   - the chunked, cancelable layer synchroniser (sync2dCorridorLayer)    *)
(*     as driven by MapView's sync effect.                                 *)
(* Coordinates are integers in units of half the deduplication tolerance   *)
(* (1 unit = 5e-8 degree), extended with the IEEE values NaN, +Infinity    *)
(* and -Infinity and with a value that is not of type number.              *)
(***************************************************************************)
EXTENDS Integers, Sequences, FiniteSets, TLC

VARIABLES
    \* ---- ring sanitizer, applied to one input polygon
    inRings,      \* the Position[][] handed to the sanitizer
    flat,         \* result of ringToDegreesFlat(inRings[0])
    hier,         \* result of buildPolygonHierarchy(inRings)
    pcS,          \* "start" | "flat" | "hier"
    \* ---- layer synchroniser
    passes,       \* one record per sync2dCorridorLayer call, in call order
    entities,     \* ds.entities of the layer's CustomDataSource
    frameQueue,   \* requestAnimationFrame callbacks, in registration order
    dsRef,        \* dataSource2dRef.current: "live" | "null"
    processing2d, \* MapView's processing.layer2d
    \* ---- colour mappers, applied to the features of one collection
    cData,        \* the collection
    cLayer,       \* "2d" | "3d": the mapper and range computation in use
    cRange,       \* the priorityRange handed to the mapper
    cOut,         \* per feature: the colour returned and the parameter t used
    pcC,          \* "start" | "range" | "mapped"
    \* ---- click selection (useCesiumViewer)
    selectedEntities,  \* selectedEntitiesRef.current: entries {entity, color}
    selected,          \* MapView's selected state: null or a list of SelectedInfo
    lastOp,            \* the selection handler that ran last, and what it did
    hovered,           \* MapView's hovered state: <<>> (null) or <<HoveredInfo>>
    \* ---- click selection, single-select variant of useCesiumViewer
    selectedEntityRef,     \* <<>> (null) or <<the entity>>
    selectedOrigColorRef,  \* <<>> (null) or <<its saved colour>>
    selectedSingle,        \* the published selection: <<>> (null) or <<SelectedInfo>>
    \* ---- viewport loop (useCesiumViewer), time in milliseconds
    clock,        \* the time since the viewer was created
    timers,       \* the due times of the pending setTimeout callbacks
    timeout,      \* the variable timeout: <<>> or <<the due time of the last timer set>>
    camera,       \* the view of viewer.camera
    lastMoveEnd,  \* the latest call of handleMoveEnd: time, view, callback ran
    publishes,    \* calls of onBoundsChange so far
    \* ---- App: bounding box, 2D layer flag and fetch state
    mapBbox,        \* <<>> (null) or <<[west, south, east, north]>>
    layer2dEnabled, \* layersEnabled.layer2d
    fetches,        \* one record per fetch2dCorridors call, in call order
    data2d,         \* <<>> (null) or <<the collection>>
    loading2d,
    error2d,        \* <<>> (null) or <<the message>>
    \* ---- api: one call of a fetch operation
    apiCall,        \* the operation, the response it gets, <<>> or <<its result>>
    \* ---- the 3D layer: App's fetch state, MapView's container and flag
    fetch3d,        \* the latest fetch3dNetwork call: "none" | "pending" | "settled"
    data3d,         \* <<>> (null) or <<the collection>>
    loading3d,
    error3d,        \* <<>> (null) or <<the message>>
    entities3d,     \* ds.entities of the 3D layer's CustomDataSource
    processing3d    \* MapView's processing.layer3d

vars == <<inRings, flat, hier, pcS, passes, entities, frameQueue, dsRef,
          processing2d,
          cData, cLayer, cRange, cOut, pcC, selectedEntities, selected, lastOp,
          hovered, selectedEntityRef, selectedOrigColorRef, selectedSingle,
          clock, timers, timeout, camera, lastMoveEnd, publishes,
          mapBbox, layer2dEnabled, fetches, data2d, loading2d, error2d,
          apiCall, fetch3d, data3d, loading3d, error3d, entities3d, processing3d>>

sanitizerVars == <<inRings, flat, hier, pcS>>
syncVars == <<passes, entities, frameQueue, dsRef, processing2d>>
colorVars == <<cData, cLayer, cRange, cOut, pcC>>
selectVars == <<selectedEntities, selected, lastOp>>
\* the state of the hooks and components no claim of a specification is about
legacyVars == <<selectedEntityRef, selectedOrigColorRef, selectedSingle>>
viewVars == <<clock, timers, timeout, camera, lastMoveEnd, publishes>>
fetchVars == <<mapBbox, layer2dEnabled, fetches, data2d, loading2d, error2d>>
apiVars == <<apiCall>>
layer3dVars == <<fetch3d, data3d, loading3d, error3d, entities3d, processing3d>>
appVars == <<hovered, legacyVars, viewVars, fetchVars, apiVars, layer3dVars>>

\* F applied to the value of v, v being evaluated once
Let(v, F(_)) == CHOOSE r \in {F(x) : x \in {v}} : TRUE

----------------------------------------------------------------------------
(* JavaScript numbers *)

Fin(n) == [k |-> "fin", v |-> n]
NaN == [k |-> "nan", v |-> 0]
PosInf == [k |-> "inf", v |-> 1]
NegInf == [k |-> "inf", v |-> -1]
NotNumber == [k |-> "str", v |-> 0]     \* typeof x !== 'number'

IsFinite(x) == x.k = "fin"

\* a < b on numbers (false whenever an operand is NaN)
Lt(a, b) ==
    IF a.k = "nan" \/ b.k = "nan" THEN FALSE
    ELSE IF a.k = "fin" /\ b.k = "fin" THEN a.v < b.v
    ELSE IF a.k = "inf" /\ b.k = "inf" THEN a.v < b.v
    ELSE IF a.k = "inf" THEN a.v < 0
    ELSE b.v > 0

\* a - b on numbers
Sub(a, b) ==
    IF a.k = "nan" \/ b.k = "nan" THEN NaN
    ELSE IF a.k = "fin" /\ b.k = "fin" THEN Fin(a.v - b.v)
    ELSE IF a.k = "inf" /\ b.k = "inf" THEN (IF a.v = b.v THEN NaN ELSE a)
    ELSE IF a.k = "inf" THEN a
    ELSE [k |-> "inf", v |-> 0 - b.v]

\* Math.abs
Abs(a) ==
    IF a.k = "fin" THEN Fin(IF a.v < 0 THEN 0 - a.v ELSE a.v)
    ELSE IF a.k = "inf" THEN PosInf
    ELSE NaN

\* the literal 1e-7, in coordinate units
Tol == 2

----------------------------------------------------------------------------
(* Ring sanitizer *)

\* a Position: an array [lon, lat], or an entry that is not an array
Pos(lon, lat) == [arr |-> TRUE, lon |-> lon, lat |-> lat]
NotArray == [arr |-> FALSE, lon |-> NotNumber, lat |-> NotNumber]

\* a ring: an array of positions, null, or a number (truthy, not iterable)
Ring(pts) == [t |-> "arr", pts |-> pts]
NullRing == [t |-> "null", pts |-> <<>>]
NumRing == [t |-> "num", pts |-> <<>>]

\* the filter of line 31
PointIsValid(p) ==
    /\ p.arr
    /\ p.lon.k # "str" /\ p.lat.k # "str"
    /\ p.lon.k # "nan" /\ p.lat.k # "nan"

\* lines 40-46: p is within the tolerance of the last kept point
IsNearDuplicate(out, p) ==
    /\ Len(out) >= 2
    /\ Lt(Abs(Sub(p.lon, out[Len(out) - 1])), Fin(Tol))
    /\ Lt(Abs(Sub(p.lat, out[Len(out)])), Fin(Tol))

\* one iteration of the loop of lines 30-49
RingStep(st, p) ==
    IF ~PointIsValid(p) THEN st
    ELSE [out |-> IF IsNearDuplicate(st.out, p) THEN st.out
                  ELSE st.out \o <<p.lon, p.lat>>,
          minLon |-> IF Lt(p.lon, st.minLon) THEN p.lon ELSE st.minLon,
          maxLon |-> IF Lt(st.maxLon, p.lon) THEN p.lon ELSE st.maxLon,
          minLat |-> IF Lt(p.lat, st.minLat) THEN p.lat ELSE st.minLat,
          maxLat |-> IF Lt(st.maxLat, p.lat) THEN p.lat ELSE st.maxLat]

RECURSIVE RingLoop(_, _, _)
RingLoop(pts, k, st) ==
    IF k > Len(pts) THEN st
    ELSE Let(RingStep(st, pts[k]), LAMBDA s : RingLoop(pts, k + 1, s))

RingStart ==
    [out |-> <<>>, minLon |-> PosInf, maxLon |-> NegInf,
     minLat |-> PosInf, maxLat |-> NegInf]

\* lines 53-57: the ring is thinner than the tolerance
IsDegenerate(st) ==
    \/ Lt(Sub(st.maxLon, st.minLon), Fin(Tol))
    \/ Lt(Sub(st.maxLat, st.minLat), Fin(Tol))

\* ringToDegreesFlat: [threw, out]; iterating null or a number throws
ringToDegreesFlat(ring) ==
    IF ring.t # "arr" THEN [threw |-> TRUE, out |-> <<>>]
    ELSE Let(RingLoop(ring.pts, 1, RingStart), LAMBDA st :
             [threw |-> FALSE, out |-> IF IsDegenerate(st) THEN <<>> ELSE st.out])

\* the hole loop of lines 71-75: the accepted holes, in order; "threw" when
\* one of rings.slice(1) cannot be iterated
RECURSIVE HoleLoop(_, _, _)
HoleLoop(rings, k, acc) ==
    IF k > Len(rings) THEN [threw |-> FALSE, holes |-> acc]
    ELSE Let(ringToDegreesFlat(rings[k]), LAMBDA h :
             IF h.threw THEN [threw |-> TRUE, holes |-> <<>>]
             ELSE HoleLoop(rings, k + 1,
                           IF Len(h.out) >= 6 THEN Append(acc, h.out) ELSE acc))

NoHierarchy == [kind |-> "null", outer |-> <<>>, holes |-> <<>>]
ThrowHierarchy == [kind |-> "throw", outer |-> <<>>, holes |-> <<>>]

\* buildPolygonHierarchy(rings); hostThrows: Cartesian3.fromDegreesArray or the
\* PolygonHierarchy constructor throws on this polygon
buildPolygonHierarchy(rings, hostThrows) ==
    IF Len(rings) = 0 \/ rings[1].t = "null" THEN NoHierarchy
    ELSE Let(ringToDegreesFlat(rings[1]), LAMBDA outer :
             IF outer.threw THEN ThrowHierarchy
             ELSE IF Len(outer.out) < 6 THEN NoHierarchy
             ELSE IF hostThrows THEN NoHierarchy
             ELSE Let(HoleLoop(rings, 2, <<>>), LAMBDA hs :
                      IF hs.threw THEN NoHierarchy
                      ELSE [kind |-> "hier", outer |-> outer.out, holes |-> hs.holes]))

----------------------------------------------------------------------------
(* Inputs of the sanitizer *)

MaxRingLen == 4

\* 0 and 1, 1 and 2 are closer than the tolerance; 0 and 2 are not
LonVals == {0, 1, 2}
LatVals == {0, 2}

Points ==
    {Pos(Fin(x), Fin(y)) : x \in LonVals, y \in LatVals}
    \cup {Pos(NaN, Fin(0)), Pos(Fin(2), NotNumber), Pos(PosInf, PosInf),
          Pos(Fin(0), NegInf), NotArray}

RingInputs ==
    {Ring(pts) : pts \in UNION {[1..n -> Points] : n \in 0..MaxRingLen}}

SquareRing ==
    Ring(<<Pos(Fin(0), Fin(0)), Pos(Fin(2), Fin(0)), Pos(Fin(2), Fin(2)),
           Pos(Fin(0), Fin(2)), Pos(Fin(0), Fin(0))>>)
\* every point within half the tolerance of the others
TinyRing ==
    Ring(<<Pos(Fin(0), Fin(0)), Pos(Fin(1), Fin(0)), Pos(Fin(1), Fin(1)),
           Pos(Fin(0), Fin(1)), Pos(Fin(0), Fin(0))>>)
TwoPointRing == Ring(<<Pos(Fin(0), Fin(0)), Pos(Fin(2), Fin(2))>>)

TriangleRing ==
    Ring(<<Pos(Fin(0), Fin(0)), Pos(Fin(2), Fin(0)), Pos(Fin(2), Fin(2)),
           Pos(Fin(0), Fin(0))>>)

\* the holes of the input polygons: rings the sanitizer keeps, rings it
\* empties, and entries that are not arrays
HoleInputs == {SquareRing, TriangleRing, TinyRing, TwoPointRing, NumRing, NullRing}

MaxHoles == 2

\* polygons with a valid outer ring and up to MaxHoles holes
HoledInputs ==
    {<<SquareRing>> \o hs : hs \in UNION {[1..n -> HoleInputs] : n \in 1..MaxHoles}}

NoFlat == [threw |-> FALSE, out |-> <<>>]

SyncIdle ==
    /\ passes = <<>>
    /\ entities = <<>>
    /\ frameQueue = <<>>
    /\ dsRef = "live"
    /\ processing2d = FALSE

SanitizerIdle ==
    /\ inRings = <<>>
    /\ flat = NoFlat
    /\ hier = NoHierarchy
    /\ pcS = "idle"

\* no selection, nothing published
NoSelection == [isNull |-> TRUE, items |-> <<>>]
\* lastOp: the handler, the entries it added or restored, and for a click the
\* picked entities that were in the selection already and what drillPick
\* returned
NoOp == [op |-> "none", n |-> 0, known |-> 0, hits |-> <<>>]

SelectIdle ==
    /\ selectedEntities = <<>>
    /\ selected = NoSelection
    /\ lastOp = NoOp

\* nothing hovered
NoHover == <<>>

\* setTimeout(..., 500) of handleMoveEnd
Delay == 500

\* App and MapView are mounted and their effects have run once: the viewer
\* looks at the destination of setView and handleMoveEnd was called (line
\* 184); no bounding box yet, so the fetch effect cleared the loading flag
\* mutant of InitialTimers: handleMoveEnd is not called at creation
InitialTimersNone == {}

\* line 184: handleMoveEnd() when the viewer is created, at time 0
InitialTimers == {Delay}

\* no fetch operation is being looked at
NoCall == [op |-> "none", res |-> <<>>, result |-> <<>>]

\* the 3D layer after mount: no bounding box yet, so nothing is fetched and
\* the first pass found no data
Layer3dIdle ==
    /\ fetch3d = "none"
    /\ data3d = <<>>
    /\ loading3d = FALSE
    /\ error3d = <<>>
    /\ entities3d = <<>>
    /\ processing3d = FALSE

AppIdle ==
    /\ apiCall = NoCall
    /\ Layer3dIdle
    /\ hovered = NoHover
    /\ selectedEntityRef = <<>>
    /\ selectedOrigColorRef = <<>>
    /\ selectedSingle = <<>>
    /\ clock = 0
    /\ timers = InitialTimers
    /\ timeout = IF InitialTimers = {} THEN <<>> ELSE <<Delay>>
    /\ camera = "city"
    /\ lastMoveEnd = [at |-> 0, camera |-> "city", ran |-> FALSE]
    /\ publishes = 0
    /\ mapBbox = <<>>
    /\ layer2dEnabled = FALSE
    /\ fetches = <<>>
    /\ data2d = <<>>
    /\ loading2d = FALSE
    /\ error2d = <<>>

ColorIdle ==
    /\ cData = <<>>
    /\ cLayer = "none"
    /\ cRange = <<>>
    /\ cOut = <<>>
    /\ pcC = "idle"

InitSanitize ==
    /\ inRings \in {<<r>> : r \in RingInputs} \cup {<<NumRing>>, <<NullRing>>, <<>>}
                    \cup HoledInputs
    /\ flat = NoFlat
    /\ hier = NoHierarchy
    /\ pcS = "start"
    /\ SyncIdle
    /\ ColorIdle
    /\ SelectIdle
    /\ AppIdle

\* ringToDegreesFlat applied to the outer ring
CallRingToDegreesFlat ==
    /\ pcS = "start"
    /\ Len(inRings) > 0
    /\ flat' = ringToDegreesFlat(inRings[1])
    /\ pcS' = "flat"
    /\ UNCHANGED <<inRings, hier>>
    /\ UNCHANGED <<syncVars, colorVars, selectVars, appVars>>

\* buildPolygonHierarchy applied to the polygon, the host accepting it
CallBuildPolygonHierarchy ==
    /\ pcS = "start"
    /\ hier' = buildPolygonHierarchy(inRings, FALSE)
    /\ pcS' = "hier"
    /\ UNCHANGED <<inRings, flat>>
    /\ UNCHANGED <<syncVars, colorVars, selectVars, appVars>>

NextSanitize == CallRingToDegreesFlat \/ CallBuildPolygonHierarchy

SpecSanitize == InitSanitize /\ [][NextSanitize]_vars

----------------------------------------------------------------------------
(* Colours *)

\* Colour components are kept exact: red, green and blue in units of
\* 1/(255 * LerpUnit), alpha in units of 1/(255 * 100).
LerpUnit == 2 * 3 * 3

Color(r, g, b, a) == [red |-> r, green |-> g, blue |-> b, alpha |-> a]

\* Cesium.Color.fromBytes
fromBytes(r, g, b, a) == Color(r * LerpUnit, g * LerpUnit, b * LerpUnit, a * 100)

\* a property value: a number, a numeric string, the empty string, another
\* string (NotNumber), or absent
NumericString(n) == [k |-> "numstr", v |-> n]
EmptyString == [k |-> "empty", v |-> 0]
Absent == [k |-> "undef", v |-> 0]
Null == [k |-> "null", v |-> 0]

\* asNumber(v): v if it is a finite number, Number(v) if v is a string and
\* Number(v) is finite (Number('') is 0), else null
asNumber(v) ==
    IF v.k = "fin" \/ v.k = "numstr" THEN Fin(v.v)
    ELSE IF v.k = "empty" THEN Fin(0)
    ELSE Null

\* mutant of clamp01: only the upper bound is enforced
clampUpperOnly(t) == IF t > LerpUnit THEN LerpUnit ELSE t

\* clamp01, on a parameter in units of 1/LerpUnit
clamp01(t) == IF t < 0 THEN 0 ELSE IF t > LerpUnit THEN LerpUnit ELSE t

\* Cesium.Color.lerp(light, dark, t), t in units of 1/LerpUnit
lerp(light, dark, t) ==
    Color(light.red + ((dark.red - light.red) * t) \div LerpUnit,
          light.green + ((dark.green - light.green) * t) \div LerpUnit,
          light.blue + ((dark.blue - light.blue) * t) \div LerpUnit,
          light.alpha + ((dark.alpha - light.alpha) * t) \div LerpUnit)

NoRange == [isNull |-> TRUE, min |-> 0, max |-> 0]

\* mutant of InterpolationT: the denominator counts the values of the range
InterpolationTByCount(n, range) ==
    clamp01(((n - range.min) * LerpUnit) \div (range.max - range.min + 1))

\* the interpolation parameter of getColor2d, in units of 1/LerpUnit
InterpolationT(n, range) ==
    LET denom == IF range.max - range.min = 0 THEN 1 ELSE range.max - range.min
    IN  clamp01(((n - range.min) * LerpUnit) \div denom)

\* getColor2d(props, priorityRange)
getColor2d(props, range) ==
    LET n == asNumber(props.priorityID)
    IN  IF n.k = "null" \/ range.isNull THEN fromBytes(80, 160, 255, 135)
        ELSE lerp(fromBytes(255, 255, 204, 135), fromBytes(177, 0, 38, 135),
                  InterpolationT(n.v, range))

\* the parameter t getColor2d interpolates with, or null when it returns
\* its fallback
InterpolationOf2d(props, range) ==
    LET n == asNumber(props.priorityID)
    IN  IF n.k = "null" \/ range.isNull THEN Null
        ELSE Fin(InterpolationT(n.v, range))

\* props.corridor_type is absent
NoType == "(undefined)"

\* CORRIDOR_TYPE_COLORS
CORRIDOR_TYPE_COLORS ==
    [open_space |-> fromBytes(100, 180, 255, 140),
     above_building |-> fromBytes(255, 160, 80, 140),
     default |-> fromBytes(120, 200, 120, 140)]

\* line 40: Number(props.priorityID) unless the property is null or undefined
NumberOrNull(v) ==
    IF v.k = "undef" \/ v.k = "null" THEN Null
    ELSE IF v.k = "fin" \/ v.k = "numstr" THEN Fin(v.v)
    ELSE IF v.k = "empty" THEN Fin(0)
    ELSE NaN

\* lines 38-39: the colour of the corridor type
ColorByType(props) ==
    LET typeKey == IF props.corridor_type = NoType THEN "default" ELSE props.corridor_type
    IN  IF typeKey \in DOMAIN CORRIDOR_TYPE_COLORS THEN CORRIDOR_TYPE_COLORS[typeKey]
        ELSE CORRIDOR_TYPE_COLORS.default

\* getColor3d(props, priorityRange)
getColor3d(props, range) ==
    LET n == NumberOrNull(props.priorityID)
    IN  IF n.k = "null" \/ ~IsFinite(n) \/ range.isNull THEN ColorByType(props)
        ELSE lerp(fromBytes(255, 255, 204, 140), fromBytes(177, 0, 38, 140),
                  InterpolationT(n.v, range))

\* the parameter t getColor3d interpolates with, or null when it returns the
\* colour of the corridor type
InterpolationOf3d(props, range) ==
    LET n == NumberOrNull(props.priorityID)
    IN  IF n.k = "null" \/ ~IsFinite(n) \/ range.isNull THEN Null
        ELSE Fin(InterpolationT(n.v, range))

\* a layer style: colorHex (its three bytes, or absent) and alpha (in
\* hundredths, or absent)
Style(hex, alpha) == [hex |-> hex, alpha |-> alpha]
NoHex == <<>>

\* applyAlpha(color, alpha)
applyAlpha(color, alpha) == [color EXCEPT !.alpha = alpha * 255]

\* hexToColor(hex, alpha), alpha already in colour units
hexToColor(hex, alpha) ==
    Color(hex[1] * LerpUnit, hex[2] * LerpUnit, hex[3] * LerpUnit, alpha)

\* mutant of Material: alpha || material.alpha instead of alpha ?? material.alpha
MaterialAlphaOr(props, range, style) ==
    LET material == getColor2d(props, range)
    IN  IF style.hex # NoHex
        THEN hexToColor(style.hex,
                        IF style.alpha.k = "undef" \/ style.alpha.v = 0 THEN material.alpha
                        ELSE style.alpha.v * 255)
        ELSE IF style.alpha.k # "undef" THEN applyAlpha(material, style.alpha.v)
        ELSE material

\* lines 223-228: the material of a feature's polygons
Material(props, range, style) ==
    LET material == getColor2d(props, range)
    IN  IF style.hex # NoHex
        THEN hexToColor(style.hex,
                        IF style.alpha.k = "undef" THEN material.alpha
                        ELSE style.alpha.v * 255)
        ELSE IF style.alpha.k # "undef" THEN applyAlpha(material, style.alpha.v)
        ELSE material

----------------------------------------------------------------------------
(* Feature collections *)

Props(name, priorityID) == [name |-> name, priorityID |-> priorityID]
EmptyProps == Props("{}", Absent)
\* Network3DProperties
Props3d(corridorType, priorityID) ==
    [name |-> "3d", priorityID |-> priorityID, corridor_type |-> corridorType]

\* a polygon's coordinates: an array of rings, null, or a number; host tells
\* what the renderer does with the polygon: "ok", "throwBuild"
\* (Cartesian3.fromDegreesArray throws) or "throwAdd" (entities.add throws)
Poly(rings, host) == [t |-> "arr", rings |-> rings, host |-> host]
NullCoords == [t |-> "null", rings |-> <<>>, host |-> "ok"]
NumCoords == [t |-> "num", rings |-> <<>>, host |-> "ok"]

\* a geometry: its type tag and its coordinates (for a Polygon one polygon;
\* for a MultiPolygon an array of polygons, or null)
PolygonGeom(poly) == [type |-> "Polygon", coords |-> "arr", polys |-> <<poly>>]
MultiPolygonGeom(polys) == [type |-> "MultiPolygon", coords |-> "arr", polys |-> polys]
MultiPolygonNull == [type |-> "MultiPolygon", coords |-> "null", polys |-> <<>>]
PointGeom == [type |-> "Point", coords |-> "arr", polys |-> <<>>]

\* a features[] entry: a feature with or without geometry and properties, or null
Feature(geom, props) ==
    [isNull |-> FALSE, hasGeom |-> TRUE, geom |-> geom, hasProps |-> TRUE, props |-> props]
NoGeomFeature(props) ==
    [isNull |-> FALSE, hasGeom |-> FALSE, geom |-> PointGeom, hasProps |-> TRUE, props |-> props]
NoPropsFeature(geom) ==
    [isNull |-> FALSE, hasGeom |-> TRUE, geom |-> geom, hasProps |-> FALSE, props |-> EmptyProps]
NullFeature ==
    [isNull |-> TRUE, hasGeom |-> FALSE, geom |-> PointGeom, hasProps |-> FALSE, props |-> EmptyProps]

Square == Poly(<<SquareRing>>, "ok")
Tiny == Poly(<<TinyRing>>, "ok")
TwoPoint == Poly(<<TwoPointRing>>, "ok")

\* a collection: its length and the rule giving its features
Collection(kind, n) == [isNull |-> FALSE, kind |-> kind, n |-> n]
\* a collection of square polygons, given by the properties of its features
ListCollection(items) ==
    [isNull |-> FALSE, kind |-> "list", n |-> Len(items), items |-> items]
NullData == [isNull |-> TRUE, kind |-> "null", n |-> 0]

\* the length of the large collections
BigN == 201

\* data.features[i], 0 <= i < data.n
FeatureAt(data, i) ==
    CASE data.kind = "three" ->
            \* three Polygon features, the second one degenerate
            IF i = 1 THEN Feature(PolygonGeom(Tiny), Props("b", Fin(4)))
            ELSE Feature(PolygonGeom(Square), Props(IF i = 0 THEN "a" ELSE "c", Fin(1 + 9 * (i \div 2))))
      [] data.kind = "multi" ->
            \* MultiPolygons: valid + 2-point ring, then two valid polygons
            IF i = 0 THEN Feature(MultiPolygonGeom(<<Square, TwoPoint>>), Props("m", NumericString(4)))
            ELSE Feature(MultiPolygonGeom(<<Square, Square>>), Props("n", Absent))
      [] data.kind = "mixed" ->
            \* features without geometry or properties, of another type, or
            \* that the renderer refuses
            CASE i = 0 -> NoGeomFeature(Props("a", Fin(1)))
              [] i = 1 -> NoPropsFeature(PolygonGeom(Square))
              [] i = 2 -> Feature(PointGeom, Props("c", Fin(1)))
              [] i = 3 -> Feature(PolygonGeom(Poly(<<SquareRing>>, "throwAdd")), Props("d", Fin(1)))
              [] i = 4 -> Feature(PolygonGeom(Poly(<<SquareRing>>, "throwBuild")), Props("e", Fin(1)))
              [] i = 5 -> Feature(PolygonGeom(NumCoords), Props("f", Fin(1)))
              [] OTHER -> Feature(PolygonGeom(Poly(<<SquareRing, TinyRing, NumRing>>, "ok")), Props("g", Fin(1)))
      [] data.kind = "big" ->
            \* more than one chunk of valid and invalid polygons
            CASE i % 3 = 0 -> Feature(PolygonGeom(Square), Props("a", Fin(1)))
              [] i % 3 = 1 -> Feature(PolygonGeom(Tiny), Props("b", Fin(4)))
              [] OTHER -> Feature(MultiPolygonGeom(<<Square, TwoPoint, Square>>), Props("c", Fin(10)))
      [] data.kind = "nullCoords" ->
            IF i = 1 THEN Feature(PolygonGeom(NullCoords), Props("x", Fin(1)))
            ELSE Feature(PolygonGeom(Square), Props("a", Fin(1)))
      [] data.kind = "multiNull" ->
            IF i = 1 THEN Feature(MultiPolygonNull, Props("x", Fin(1)))
            ELSE Feature(PolygonGeom(Square), Props("a", Fin(1)))
      [] data.kind = "badRing" ->
            IF i = 1 THEN Feature(PolygonGeom(Poly(<<NumRing>>, "ok")), Props("x", Fin(1)))
            ELSE Feature(PolygonGeom(Square), Props("a", Fin(1)))
      [] data.kind = "bigBad" ->
            \* the malformed feature lies in the second chunk
            IF i = data.n - 1 THEN Feature(PolygonGeom(NullCoords), Props("x", Fin(1)))
            ELSE IF i = 0 THEN Feature(PolygonGeom(Square), Props("a", Fin(1)))
            ELSE NoGeomFeature(Props("b", Absent))
      [] data.kind = "nullEntry" ->
            IF i = 1 THEN NullFeature
            ELSE Feature(PolygonGeom(Square), Props("a", Fin(1)))
      [] data.kind = "hostThrow" ->
            \* well-formed polygons, some of which the renderer refuses
            CASE i = 0 -> Feature(PolygonGeom(Poly(<<SquareRing>>, "throwBuild")), Props("a", Fin(1)))
              [] i = 1 -> Feature(MultiPolygonGeom(<<Poly(<<SquareRing>>, "throwAdd"), Square>>),
                                  Props("b", Fin(4)))
              [] OTHER -> Feature(PolygonGeom(Square), Props("c", Fin(10)))
      [] data.kind = "list" -> Feature(PolygonGeom(Square), data.items[i + 1])
      [] OTHER -> NullFeature

Collections ==
    {Collection("empty", 0), Collection("three", 3), Collection("multi", 2),
     Collection("mixed", 7), Collection("big", BigN),
     Collection("nullCoords", 3), Collection("multiNull", 3),
     Collection("badRing", 3), Collection("bigBad", BigN),
     Collection("nullEntry", 3), Collection("hostThrow", 3)}

\* computePriorityRange2d(data): [threw, range]; reading f.properties of a
\* null entry throws
PriorityValues(data) ==
    {asNumber(FeatureAt(data, i).props.priorityID).v :
        i \in {j \in 0..(data.n - 1) :
                  asNumber(FeatureAt(data, j).props.priorityID).k # "null"}}

computePriorityRange2d(data) ==
    IF data.isNull THEN [threw |-> FALSE, range |-> NoRange]
    ELSE IF \E i \in 0..(data.n - 1) : FeatureAt(data, i).isNull
         THEN [threw |-> TRUE, range |-> NoRange]
    ELSE Let(PriorityValues(data), LAMBDA vals :
             IF vals = {} THEN [threw |-> FALSE, range |-> NoRange]
             ELSE [threw |-> FALSE,
                   range |-> [isNull |-> FALSE,
                              min |-> CHOOSE a \in vals : \A b \in vals : a <= b,
                              max |-> CHOOSE a \in vals : \A b \in vals : b <= a]])

\* the values computePriorityRange3d collects: finite numbers only
PriorityValues3d(data) ==
    {FeatureAt(data, i).props.priorityID.v :
        i \in {j \in 0..(data.n - 1) : FeatureAt(data, j).props.priorityID.k = "fin"}}

\* computePriorityRange3d(data): [threw, range]
computePriorityRange3d(data) ==
    IF data.isNull THEN [threw |-> FALSE, range |-> NoRange]
    ELSE IF \E i \in 0..(data.n - 1) : FeatureAt(data, i).isNull
         THEN [threw |-> TRUE, range |-> NoRange]
    ELSE Let(PriorityValues3d(data), LAMBDA vals :
             IF vals = {} THEN [threw |-> FALSE, range |-> NoRange]
             ELSE [threw |-> FALSE,
                   range |-> [isNull |-> FALSE,
                              min |-> CHOOSE a \in vals : \A b \in vals : a <= b,
                              max |-> CHOOSE a \in vals : \A b \in vals : b <= a]])

----------------------------------------------------------------------------
(* The colour mappers applied to a collection *)

MaxFeatures == 2

\* priorityID: absent, numbers, numeric strings, the empty string, another
\* string
PriorityInputs ==
    {Absent, Fin(1), Fin(4), Fin(10), NumericString(4), NumericString(13),
     EmptyString, NotNumber}

TypeInputs == {"open_space", "above_building", "elevated"}

PropInputs ==
    {Props3d(NoType, pr) : pr \in PriorityInputs}
    \cup {Props3d(ty, pr) : ty \in TypeInputs, pr \in {Absent, Fin(4), NotNumber}}

\* the ranges a caller may pass: null, or min <= max
RangeInputs ==
    {NoRange} \cup {[isNull |-> FALSE, min |-> a, max |-> b] :
                        a \in {1, 4}, b \in {4, 10}}

InitColor ==
    /\ cData \in {ListCollection(items) :
                      items \in UNION {[1..n -> PropInputs] : n \in 1..MaxFeatures}}
    /\ cLayer = "none"
    /\ cRange = NoRange
    /\ cOut = <<>>
    /\ pcC = "start"
    /\ SanitizerIdle
    /\ SyncIdle
    /\ SelectIdle
    /\ AppIdle

\* MapView computes the range of the 2D collection
ComputeRange2d ==
    /\ pcC = "start"
    /\ cLayer' = "2d"
    /\ cRange' = computePriorityRange2d(cData).range
    /\ pcC' = "range"
    /\ UNCHANGED <<cData, cOut, sanitizerVars, syncVars, selectVars, appVars>>

\* MapView computes the range of the 3D collection
ComputeRange3d ==
    /\ pcC = "start"
    /\ cLayer' = "3d"
    /\ cRange' = computePriorityRange3d(cData).range
    /\ pcC' = "range"
    /\ UNCHANGED <<cData, cOut, sanitizerVars, syncVars, selectVars, appVars>>

\* a caller of the exported mappers passes a range of its own
PassRange(layer, range) ==
    /\ pcC = "start"
    /\ cLayer' = layer
    /\ cRange' = range
    /\ pcC' = "range"
    /\ UNCHANGED <<cData, cOut, sanitizerVars, syncVars, selectVars, appVars>>

\* the mapper of the layer is applied to every feature of the collection
MapColors ==
    /\ pcC = "range"
    /\ cOut' = [i \in 1..cData.n |->
                   LET props == FeatureAt(cData, i - 1).props
                   IN  IF cLayer = "2d"
                       THEN [color |-> getColor2d(props, cRange),
                             t |-> InterpolationOf2d(props, cRange)]
                       ELSE [color |-> getColor3d(props, cRange),
                             t |-> InterpolationOf3d(props, cRange)]]
    /\ pcC' = "mapped"
    /\ UNCHANGED <<cData, cLayer, cRange, sanitizerVars, syncVars, selectVars, appVars>>

NextColor ==
    \/ ComputeRange2d
    \/ ComputeRange3d
    \/ \E layer \in {"2d", "3d"}, range \in RangeInputs : PassRange(layer, range)
    \/ MapColors

SpecColor == InitColor /\ [][NextColor]_vars

----------------------------------------------------------------------------
(* Layer synchroniser: sync2dCorridorLayer *)

ChunkSize == 200

\* mutant of Entity: the layer tag is not attached
EntityNoLayer(pid, feat, k, props, material) ==
    [pass |-> pid, feat |-> feat, poly |-> k, corridorProps |-> props,
     layer |-> "(undefined)", material |-> material]

\* the entity addPolygon2d adds: its metadata and material, and the pass,
\* feature index and polygon index it was built from
Entity(pid, feat, k, props, material) ==
    [pass |-> pid, feat |-> feat, poly |-> k, corridorProps |-> props,
     layer |-> "2d", material |-> material]

\* mutant of addPolygon2d: the test of line 107 is missing
addPolygon2dNoNullCheck(ents, poly, e) ==
    Let(buildPolygonHierarchy(poly.rings, poly.host = "throwBuild"), LAMBDA hierarchy :
        IF hierarchy.kind = "throw" THEN [threw |-> TRUE, ents |-> ents]
        ELSE IF poly.host = "throwAdd" THEN [threw |-> FALSE, ents |-> ents]
        ELSE [threw |-> FALSE, ents |-> Append(ents, e)])

\* mutant of addPolygon2d: entities.add is not inside a try block
addPolygon2dAddUnguarded(ents, poly, e) ==
    Let(buildPolygonHierarchy(poly.rings, poly.host = "throwBuild"), LAMBDA hierarchy :
        IF hierarchy.kind = "throw" THEN [threw |-> TRUE, ents |-> ents]
        ELSE IF hierarchy.kind = "null" THEN [threw |-> FALSE, ents |-> ents]
        ELSE IF poly.host = "throwAdd" THEN [threw |-> TRUE, ents |-> ents]
        ELSE [threw |-> FALSE, ents |-> Append(ents, e)])

\* addPolygon2d(ds, rings, material, props), e the entity it would add:
\* [threw, ents]
addPolygon2d(ents, poly, e) ==
    Let(buildPolygonHierarchy(poly.rings, poly.host = "throwBuild"), LAMBDA hierarchy :
        IF hierarchy.kind = "throw" THEN [threw |-> TRUE, ents |-> ents]
        ELSE IF hierarchy.kind = "null" THEN [threw |-> FALSE, ents |-> ents]
        ELSE IF poly.host = "throwAdd" THEN [threw |-> FALSE, ents |-> ents]
        ELSE [threw |-> FALSE, ents |-> Append(ents, e)])

\* addRings(rings) of lines 230-233
addRings(ents, poly, e) ==
    IF poly.t = "null" THEN [threw |-> TRUE, ents |-> ents]     \* null[0]
    ELSE IF poly.t = "num" THEN [threw |-> FALSE, ents |-> ents] \* rings[0] undefined
    ELSE IF Len(poly.rings) = 0 \/ poly.rings[1].t = "null"
         THEN [threw |-> FALSE, ents |-> ents]
    ELSE IF poly.rings[1].t = "arr" /\ Len(poly.rings[1].pts) < 3
         THEN [threw |-> FALSE, ents |-> ents]
    ELSE addPolygon2d(ents, poly, e)

\* mutant of PolygonsOf: only the first polygon of a MultiPolygon is added
PolygonsOfFirstOnly(geom) ==
    IF geom.type = "Polygon" THEN geom.polys
    ELSE IF geom.type = "MultiPolygon" /\ Len(geom.polys) > 0 THEN <<geom.polys[1]>>
    ELSE <<>>

\* lines 235-241: the ring sets addRings is called with
PolygonsOf(geom) ==
    IF geom.type = "Polygon" \/ geom.type = "MultiPolygon" THEN geom.polys
    ELSE <<>>

RECURSIVE PolyLoop(_, _, _, _, _)
PolyLoop(polys, k, ents, pid, ctx) ==
    IF k > Len(polys) THEN [threw |-> FALSE, ents |-> ents]
    ELSE Let(addRings(ents, polys[k],
                      Entity(pid, ctx.feat, k, ctx.props, ctx.material)),
             LAMBDA r : IF r.threw THEN r ELSE PolyLoop(polys, k + 1, r.ents, pid, ctx))

\* the body of the loop of lines 218-242 for features[i]
ProcessFeature(p, pid, i, ents) ==
    Let(FeatureAt(p.data, i), LAMBDA feature :
        IF feature.isNull THEN [threw |-> TRUE, ents |-> ents]
        ELSE IF ~feature.hasGeom THEN [threw |-> FALSE, ents |-> ents]
        ELSE IF feature.geom.type = "MultiPolygon" /\ feature.geom.coords = "null"
             THEN [threw |-> TRUE, ents |-> ents]
        ELSE Let(IF feature.hasProps THEN feature.props ELSE EmptyProps, LAMBDA props :
             Let([feat |-> i, props |-> props,
                  material |-> Material(props, p.range, p.style)], LAMBDA ctx :
                 PolyLoop(PolygonsOf(feature.geom), 1, ents, pid, ctx))))

\* the loop of lines 218-242 over features[i..end-1], in index order:
\* [threw, i, ents]. The range is walked as two halves, the second one only
\* if the first one ran to its end, which bounds the depth of evaluation.
RECURSIVE ChunkLoop(_, _, _, _, _)
ChunkLoop(p, pid, i, end, ents) ==
    IF i >= end THEN [threw |-> FALSE, i |-> i, ents |-> ents]
    ELSE IF end - i = 1
    THEN Let(ProcessFeature(p, pid, i, ents), LAMBDA r :
             [threw |-> r.threw, i |-> IF r.threw THEN i ELSE i + 1, ents |-> r.ents])
    ELSE Let(ChunkLoop(p, pid, i, (i + end) \div 2, ents), LAMBDA first :
             IF first.threw THEN first
             ELSE ChunkLoop(p, pid, (i + end) \div 2, end, first.ents))

\* the state of one call of sync2dCorridorLayer
NewPass(input, range, hasSignal) ==
    [data |-> input.data, enabled |-> input.enabled, style |-> input.style,
     range |-> range, hasSignal |-> hasSignal,
     aborted |-> FALSE,        \* controller.signal.aborted
     i |-> 0,                  \* the cursor
     status |-> "pending",     \* the promise: "pending", "resolved", "rejected"
     via |-> "none",           \* where it was resolved: "nods", "idle", "abort", "done"
     resolveCalls |-> 0,       \* calls of resolve
     inCall |-> TRUE,          \* sync2dCorridorLayer has not returned yet
     settledInCall |-> FALSE,  \* the promise was settled before it returned
     frames |-> 0,             \* calls of requestAnimationFrame
     suspends |-> 0, resumes |-> 0,   \* calls of suspendEvents / resumeEvents
     threw |-> FALSE]          \* an exception left processChunk

\* resolve()
Resolve(p, via) ==
    [p EXCEPT !.resolveCalls = @ + 1,
              !.status = IF p.status = "pending" THEN "resolved" ELSE @,
              !.via = IF p.status = "pending" THEN via ELSE @,
              !.settledInCall = IF p.status = "pending" THEN p.inCall ELSE @]

\* an exception leaves processChunk: inside the promise executor it rejects
\* the promise, inside a frame callback it is lost and the promise stays pending
Throw(p) ==
    [p EXCEPT !.threw = TRUE,
              !.status = IF p.status = "pending" /\ p.inCall THEN "rejected" ELSE @,
              !.settledInCall = IF p.status = "pending" /\ p.inCall THEN TRUE ELSE @]

\* mutant of SignalAborted: processChunk does not look at the signal
SignalNeverChecked(p) == FALSE

\* signal?.aborted
SignalAborted(p) == p.hasSignal /\ p.aborted

Min(a, b) == IF a < b THEN a ELSE b

\* mutant of processChunk: resumeEvents is called whatever the cursor is
processChunkResumeAlways(p, pid, ents) ==
    IF SignalAborted(p)
    THEN [pass |-> Resolve(p, "abort"), ents |-> ents, schedule |-> FALSE]
    ELSE LET end == Min(p.i + ChunkSize, p.data.n)
             p1 == IF p.i < end THEN [p EXCEPT !.suspends = @ + 1] ELSE p
         IN  Let(ChunkLoop(p, pid, p.i, end, ents), LAMBDA r :
             IF r.threw
             THEN [pass |-> Throw([p1 EXCEPT !.i = r.i]), ents |-> r.ents,
                   schedule |-> FALSE]
             ELSE LET p2 == [p1 EXCEPT !.i = r.i, !.resumes = @ + 1]
                  IN  IF r.i < p.data.n
                      THEN [pass |-> [p2 EXCEPT !.frames = @ + 1], ents |-> r.ents,
                            schedule |-> TRUE]
                      ELSE [pass |-> Resolve(p2, "done"), ents |-> r.ents,
                            schedule |-> FALSE])

\* processChunk(): [pass, ents, schedule]
processChunk(p, pid, ents) ==
    IF SignalAborted(p)
    THEN [pass |-> Resolve(p, "abort"), ents |-> ents, schedule |-> FALSE]
    ELSE LET end == Min(p.i + ChunkSize, p.data.n)
             p1 == IF p.i < end THEN [p EXCEPT !.suspends = @ + 1] ELSE p
         IN  Let(ChunkLoop(p, pid, p.i, end, ents), LAMBDA r :
             IF r.threw
             THEN [pass |-> Throw([p1 EXCEPT !.i = r.i]), ents |-> r.ents,
                   schedule |-> FALSE]
             ELSE LET p2 == [p1 EXCEPT !.i = r.i,
                                       !.resumes = IF r.i > 0 THEN @ + 1 ELSE @]
                  IN  IF r.i < p.data.n
                      THEN [pass |-> [p2 EXCEPT !.frames = @ + 1], ents |-> r.ents,
                            schedule |-> TRUE]
                      ELSE [pass |-> Resolve(p2, "done"), ents |-> r.ents,
                            schedule |-> FALSE])

\* mutant of IsIdleCall: the enabled flag is not tested
IsIdleCallDataOnly(enabled, data) == data.isNull

\* line 207: !enabled || !data
IsIdleCall(enabled, data) == ~enabled \/ data.isNull

\* mutant of sync2dCorridorLayer: removeAll only once the layer is known to
\* be enabled and to have data
sync2dClearAfterGuard(ds, ents, p, pid) ==
    IF ds = "null"
    THEN [pass |-> Resolve(p, "nods"), ents |-> ents, schedule |-> FALSE]
    ELSE IF IsIdleCall(p.enabled, p.data)
         THEN [pass |-> Resolve(p, "idle"), ents |-> ents, schedule |-> FALSE]
         ELSE processChunk(p, pid, <<>>)

\* sync2dCorridorLayer, up to the return of the promise: [pass, ents, schedule]
sync2dCorridorLayer(ds, ents, p, pid) ==
    IF ds = "null"
    THEN [pass |-> Resolve(p, "nods"), ents |-> ents, schedule |-> FALSE]
    ELSE IF IsIdleCall(p.enabled, p.data)
         THEN [pass |-> Resolve(p, "idle"), ents |-> <<>>, schedule |-> FALSE]
         ELSE processChunk(p, pid, <<>>)

----------------------------------------------------------------------------
(* MapView: the 2D sync effect, frames, unmount *)

MaxPasses == 2

\* layerStyles.layer2d of App's DEFAULT_STYLES: '#4da6ff', 0.53
DefaultStyle == Style(<<77, 166, 255>>, Fin(53))

Three == Collection("three", 3)

\* the (data2d, layersEnabled.layer2d, layerStyles.layer2d) an effect run sees
SyncInputs ==
    {[data |-> d, enabled |-> TRUE, style |-> DefaultStyle] :
        d \in Collections \cup {NullData}}
    \cup {[data |-> Three, enabled |-> FALSE, style |-> DefaultStyle]}
    \cup {[data |-> Three, enabled |-> TRUE, style |-> st] :
            st \in {Style(NoHex, Absent), Style(NoHex, Fin(53)),
                    Style(<<77, 166, 255>>, Absent), Style(<<77, 166, 255>>, Fin(0))}}

Init == SanitizerIdle /\ SyncIdle /\ ColorIdle /\ SelectIdle /\ AppIdle

\* mutant of AbortLatest: the effect has no cleanup
AbortLatestNothing(ps) == ps

\* controller.abort() of the effect's cleanup, for the latest effect run
AbortLatest(ps) ==
    IF Len(ps) = 0 THEN ps ELSE [ps EXCEPT ![Len(ps)].aborted = TRUE]

\* A run of the 2D effect: the cleanup of the previous run aborts its
\* controller, the processing flag is set, then sync2dCorridorLayer is called
\* with a new signal and runs up to its first yield; if the promise is
\* resolved by then, the callback of line 109 clears the flag.
SyncEffectRun(input) ==
    /\ dsRef = "live"
    /\ \E pr \in {computePriorityRange2d(input.data)} :
          /\ ~pr.threw
          /\ \E r \in {sync2dCorridorLayer(dsRef, entities,
                                            NewPass(input, pr.range, TRUE),
                                            Len(passes) + 1)} :
                /\ passes' = Append(AbortLatest(passes),
                                    [r.pass EXCEPT !.inCall = FALSE])
                /\ entities' = r.ents
                /\ frameQueue' = IF r.schedule
                                 THEN Append(frameQueue, Len(passes) + 1)
                                 ELSE frameQueue
                /\ processing2d' = (r.pass.status # "resolved")
    /\ UNCHANGED dsRef

\* the effect runs because the style or the data changed
SyncEffect(input) ==
    /\ Len(passes) < MaxPasses
    /\ SyncEffectRun(input)
    /\ UNCHANGED <<sanitizerVars, colorVars, selectVars, appVars>>

\* The browser runs the oldest requested frame callback: processChunk.
Frame ==
    /\ frameQueue # <<>>
    /\ \E r \in {processChunk(passes[Head(frameQueue)], Head(frameQueue), entities)} :
          /\ passes' = [passes EXCEPT ![Head(frameQueue)] = r.pass]
          /\ entities' = r.ents
          /\ frameQueue' = IF r.schedule
                           THEN Append(Tail(frameQueue), Head(frameQueue))
                           ELSE Tail(frameQueue)
          /\ processing2d' = IF /\ r.pass.status = "resolved"
                                 /\ passes[Head(frameQueue)].status = "pending"
                                 /\ ~r.pass.aborted
                              THEN FALSE ELSE processing2d
    /\ UNCHANGED <<dsRef, sanitizerVars, colorVars, selectVars, appVars>>

\* The effects' cleanups on unmount: the viewer and its data sources are
\* destroyed, the ref is nulled, the latest controller is aborted.
Teardown ==
    /\ dsRef' = "null"
    /\ entities' = <<>>
    /\ passes' = AbortLatest(passes)
    /\ UNCHANGED <<frameQueue, processing2d, sanitizerVars, colorVars, selectVars,
                   appVars>>

Unmount ==
    /\ dsRef = "live"
    /\ Teardown

\* computePriorityRange2d throws while MapView renders with new data: React
\* unmounts the tree, no effect runs for this data.
RenderError(input) ==
    /\ dsRef = "live"
    /\ Len(passes) < MaxPasses
    /\ computePriorityRange2d(input.data).threw
    /\ Teardown

Next ==
    \/ \E input \in SyncInputs : SyncEffect(input)
    \/ Frame
    \/ Unmount
    \/ \E input \in SyncInputs : RenderError(input)

Spec == Init /\ [][Next]_vars

----------------------------------------------------------------------------
(* Click selection, accumulating variant of useCesiumViewer *)

\* Cesium.Color.fromBytes(255, 220, 0, 220), the highlight of line 151
HighlightColor == fromBytes(255, 220, 0, 220)

\* the identity of an entity object
EntityId(e) == <<e.pass, e.feat, e.poly>>

\* mutant of AlreadySelected: the test of lines 137-138 is missing
NeverAlreadySelected(sel, e) == FALSE

\* line 137: selectedEntitiesRef.current.some(s => s.entity === id)
AlreadySelected(sel, e) ==
    \E k \in 1..Len(sel) : sel[k].entity = EntityId(e)

\* mutant of ClickStep: the colour is saved but the highlight is not set
ClickStepNoHighlight(st, hit) ==
    IF hit = 0 THEN st
    ELSE IF AlreadySelected(st.sel, st.ents[hit]) THEN st
    ELSE [sel |-> Append(st.sel, [entity |-> EntityId(st.ents[hit]),
                                   color |-> st.ents[hit].material]),
          ents |-> st.ents,
          infos |-> Append(st.infos, [properties |-> st.ents[hit].corridorProps,
                                       layer |-> st.ents[hit].layer])]

\* the body of the loop of lines 129-155 for one picked object: hit is the
\* position of the picked entity in the container, or 0 for a picked object
\* without _corridorProps / _layer
ClickStep(st, hit) ==
    IF hit = 0 THEN st
    ELSE IF AlreadySelected(st.sel, st.ents[hit]) THEN st
    ELSE [sel |-> Append(st.sel, [entity |-> EntityId(st.ents[hit]),
                                   color |-> st.ents[hit].material]),
          ents |-> [st.ents EXCEPT ![hit].material = HighlightColor],
          infos |-> Append(st.infos, [properties |-> st.ents[hit].corridorProps,
                                       layer |-> st.ents[hit].layer])]

\* mutant of ClickLoop: only the first picked object is looked at
ClickLoopFirstOnly(hits, k, st) ==
    IF Len(hits) = 0 THEN st ELSE ClickStep(st, hits[1])

RECURSIVE ClickLoop(_, _, _)
ClickLoop(hits, k, st) ==
    IF k > Len(hits) THEN st
    ELSE Let(ClickStep(st, hits[k]), LAMBDA next : ClickLoop(hits, k + 1, next))

\* mutant of Publish: a click that selects nothing publishes no selection
PublishOrClear(prev, infos) ==
    IF infos = <<>> THEN [isNull |-> TRUE, items |-> <<>>]
    ELSE [isNull |-> FALSE, items |-> prev.items \o infos]

\* line 158: setSelected(prev => (prev ? [...prev, ...newInfos] : newInfos))
Publish(prev, infos) ==
    IF infos = <<>> THEN prev
    ELSE [isNull |-> FALSE, items |-> prev.items \o infos]

MaxHits == 2

\* what drillPick can return: entities of the container, an entity possibly
\* twice (fill and outline), and objects without metadata
HitInputs == UNION {[1..n -> 0..Len(entities)] : n \in 0..MaxHits}

\* the LEFT_CLICK handler of lines 123-160
Click(hits) ==
    /\ dsRef = "live"
    /\ \E r \in {ClickLoop(hits, 1, [sel |-> selectedEntities, ents |-> entities,
                                       infos |-> <<>>])} :
          /\ selectedEntities' = r.sel
          /\ entities' = r.ents
          /\ selected' = Publish(selected, r.infos)
          /\ lastOp' = [op |-> "click", n |-> Len(r.infos),
                        known |-> Cardinality({k \in 1..Len(hits) :
                                    /\ hits[k] # 0
                                    /\ \E j \in 1..Len(selectedEntities) :
                                          selectedEntities[j].entity =
                                              EntityId(entities[hits[k]])}),
                        hits |-> hits]
    /\ UNCHANGED <<passes, frameQueue, dsRef, processing2d, sanitizerVars, colorVars, appVars>>

\* mutant of RestoreColors: the saved colours are not written back
RestoreNothing(sel, ents) == ents

\* lines 199-205: every entry's saved colour is written to its entity; a
\* write to an entity that has left the container changes nothing here
RestoreColors(sel, ents) ==
    [k \in 1..Len(ents) |->
        IF \E j \in 1..Len(sel) : sel[j].entity = EntityId(ents[k])
        THEN [ents[k] EXCEPT !.material =
                 sel[CHOOSE j \in 1..Len(sel) :
                        /\ sel[j].entity = EntityId(ents[k])
                        /\ \A l \in (j + 1)..Len(sel) :
                              sel[l].entity # EntityId(ents[k])].color]
        ELSE ents[k]]

\* mutant of ClearSelection: setSelected is not called
ClearSelectionKeepsPublished ==
    /\ dsRef = "live"
    /\ entities' = RestoreColors(selectedEntities, entities)
    /\ selectedEntities' = <<>>
    /\ selected' = selected
    /\ lastOp' = [op |-> "clear", n |-> Len(selectedEntities), known |-> 0,
                 hits |-> <<>>]
    /\ UNCHANGED <<passes, frameQueue, dsRef, processing2d, sanitizerVars, colorVars, appVars>>

\* clearSelection of lines 198-208
ClearSelection ==
    /\ dsRef = "live"
    /\ entities' = RestoreColors(selectedEntities, entities)
    /\ selectedEntities' = <<>>
    /\ selected' = NoSelection
    /\ lastOp' = [op |-> "clear", n |-> Len(selectedEntities), known |-> 0,
                 hits |-> <<>>]
    /\ UNCHANGED <<passes, frameQueue, dsRef, processing2d, sanitizerVars, colorVars, appVars>>

\* the effect runs of the selection scenarios: collections of a single chunk
SelectSyncInputs ==
    {[data |-> Three, enabled |-> TRUE, style |-> Style(NoHex, Absent)],
     [data |-> Three, enabled |-> TRUE, style |-> DefaultStyle]}

NextSelect ==
    \/ \E input \in SelectSyncInputs : SyncEffect(input)
    \/ \E hits \in HitInputs : Click(hits)
    \/ ClearSelection

SpecSelect == Init /\ [][NextSelect]_vars

----------------------------------------------------------------------------
(* Hover, the MOUSE_MOVE handler of useCesiumViewer *)

\* a field that is undefined: a layer tag, and properties (properties are
\* held as <<props>>)
Undefined == "(undefined)"
NoProperties == <<>>

\* what scene.pick can return: undefined, an object without id, an object
\* whose id is an entity of the container, or an object foreign to the
\* layer whose id carries the fields idProps and idLayer
PickNothing ==
    [kind |-> "none", k |-> 0, idProps |-> NoProperties, idLayer |-> Undefined]
PickNoId ==
    [kind |-> "noid", k |-> 0, idProps |-> NoProperties, idLayer |-> Undefined]
PickEntity(k) ==
    [kind |-> "entity", k |-> k, idProps |-> NoProperties, idLayer |-> Undefined]
PickForeign(idProps, idLayer) ==
    [kind |-> "foreign", k |-> 0, idProps |-> idProps, idLayer |-> idLayer]

\* lines 106-108: entity?._corridorProps
CorridorPropsOf(pick) ==
    IF pick.kind = "entity" THEN <<entities[pick.k].corridorProps>>
    ELSE IF pick.kind = "foreign" THEN pick.idProps
    ELSE NoProperties

\* line 109: entity?._layer
LayerOf(pick) ==
    IF pick.kind = "entity" THEN entities[pick.k].layer
    ELSE IF pick.kind = "foreign" THEN pick.idLayer
    ELSE Undefined

\* mutant of HasMetadata: the layer tag is not tested
HasMetadataPropsOnly(props, layer) == props # NoProperties

\* line 110: props && layer
HasMetadata(props, layer) == props # NoProperties /\ layer # Undefined

\* movement.endPosition
PointerPositions == {[x |-> 10, y |-> 20], [x |-> 300, y |-> 40]}

PickInputs ==
    {PickNothing, PickNoId} \cup {PickEntity(k) : k \in 1..Len(entities)}
    \cup {PickForeign(pr, ly) : pr \in {NoProperties, <<Props("tile", Absent)>>},
                                ly \in {Undefined, "3d"}}

\* the MOUSE_MOVE handler of lines 104-120
MouseMove(pos, pick) ==
    /\ dsRef = "live"
    /\ hovered' = IF HasMetadata(CorridorPropsOf(pick), LayerOf(pick))
                  THEN <<[x |-> pos.x, y |-> pos.y,
                          properties |-> CorridorPropsOf(pick)[1],
                          layer |-> LayerOf(pick)]>>
                  ELSE NoHover
    /\ UNCHANGED <<sanitizerVars, syncVars, colorVars, apiVars, layer3dVars, selectVars, legacyVars,
                   viewVars, fetchVars>>

\* hover over a layer that is built, clicked on and rebuilt
NextHover ==
    \/ \E input \in SelectSyncInputs : SyncEffect(input)
    \/ \E h \in 0..Len(entities) : Click(<<h>>)
    \/ \E pos \in PointerPositions, pick \in PickInputs : MouseMove(pos, pick)

SpecHover == Init /\ [][NextHover]_vars

----------------------------------------------------------------------------
(* Click selection, single-select variant of useCesiumViewer *)

\* mutant of RestorePrevious: the previous selection is not restored
RestorePreviousNothing(ents) == ents

\* lines 126-133: the saved colour is written to the previously selected
\* entity; a write to an entity that has left the container changes nothing
\* here
RestorePrevious(ents) ==
    IF selectedEntityRef # <<>> /\ selectedOrigColorRef # <<>>
    THEN [k \in 1..Len(ents) |->
            IF EntityId(ents[k]) = selectedEntityRef[1]
            THEN [ents[k] EXCEPT !.material = selectedOrigColorRef[1]]
            ELSE ents[k]]
    ELSE ents

\* what scene.pick returns in the scenarios of the single-select variant:
\* every object with both metadata fields is a polygon of the container
SinglePickInputs ==
    {pick \in PickInputs :
        pick.kind = "foreign" => ~HasMetadata(pick.idProps, pick.idLayer)}

\* the LEFT_CLICK handler of lines 120-159
SingleClick(pick) ==
    /\ dsRef = "live"
    /\ \E restored \in {RestorePrevious(entities)} :
          IF HasMetadata(CorridorPropsOf(pick), LayerOf(pick)) /\ pick.kind = "entity"
          THEN /\ selectedEntityRef' = <<EntityId(restored[pick.k])>>
               /\ selectedOrigColorRef' = <<restored[pick.k].material>>
               /\ entities' = [restored EXCEPT ![pick.k].material = HighlightColor]
               /\ selectedSingle' = <<[properties |-> CorridorPropsOf(pick)[1],
                                       layer |-> LayerOf(pick)]>>
          ELSE /\ selectedEntityRef' = <<>>
               /\ selectedOrigColorRef' = <<>>
               /\ entities' = restored
               /\ selectedSingle' = <<>>
    /\ lastOp' = [op |-> "click", n |-> IF pick.kind = "entity" THEN 1 ELSE 0,
                  known |-> IF /\ pick.kind = "entity"
                               /\ selectedEntityRef = <<EntityId(entities[pick.k])>>
                            THEN 1 ELSE 0,
                  hits |-> <<pick.k>>]
    /\ UNCHANGED <<passes, frameQueue, dsRef, processing2d, sanitizerVars, colorVars, apiVars, layer3dVars,
                   selectedEntities, selected, hovered, viewVars, fetchVars>>

\* the effect runs of the single-select scenarios: one collection, enabled
\* or not, under every style
SingleSyncInputs == {input \in SyncInputs : input.data = Three}

NextSingle ==
    \/ \E input \in SingleSyncInputs : SyncEffect(input)
    \/ \E pick \in SinglePickInputs : SingleClick(pick)

SpecSingle == Init /\ [][NextSingle]_vars

----------------------------------------------------------------------------
(* App: the 2D fetch effect *)

MaxFetches == 3
\* the runs of MapView's sync effect in the scenarios of the fetch effect
MaxRenders == 3

\* controller.abort() of the cleanup of the previous effect run (line 232)
AbortLatestFetch(fs) ==
    IF Len(fs) = 0 THEN fs ELSE [fs EXCEPT ![Len(fs)].aborted = TRUE]

\* A run of the fetch effect of lines 220-233 after mapBbox or
\* layersEnabled.layer2d changed to bbox and enabled: the previous run's
\* cleanup, then the effect.
FetchEffect(bbox, enabled) ==
    IF bbox = <<>> \/ ~enabled
    THEN /\ loading2d' = FALSE
         /\ fetches' = AbortLatestFetch(fetches)
         /\ UNCHANGED error2d
    ELSE /\ Len(fetches) < MaxFetches
         /\ loading2d' = TRUE
         /\ error2d' = <<>>
         /\ fetches' = Append(AbortLatestFetch(fetches),
                              [bbox |-> bbox[1], aborted |-> FALSE,
                               status |-> "pending"])

\* handleBoundsChange (lines 216-218) and the render it causes
BoundsChange(bbox) ==
    /\ mapBbox' = <<bbox>>
    /\ FetchEffect(<<bbox>>, layer2dEnabled)
    /\ UNCHANGED <<layer2dEnabled, data2d>>

----------------------------------------------------------------------------
(* Viewport loop: handleMoveEnd of useCesiumViewer *)

MaxClock == 1500
\* the step of the clock
TickMs == 250

\* the views of the camera: the destination of setView, another view of
\* the ground, and a view that shows no ground
Views == {"city", "strait", "sky"}

\* camera.computeViewRectangle: <<>> (undefined) or <<rectangle>>, west,
\* south, east, north in units of pi/360 radian
computeViewRectangle(view) ==
    IF view = "city" THEN <<[west |-> 207, south |-> 2, east |-> 208, north |-> 3]>>
    ELSE IF view = "strait" THEN <<[west |-> 205, south |-> 1, east |-> 207, north |-> 3]>>
    ELSE <<>>

\* Cesium.Math.toDegrees, the result in units of 0.1 degree
toDegrees(radians) == radians * 5

\* mutant of ClearTimeout: the pending timer is not cancelled
ClearTimeoutNothing(ts, handle) == ts

\* clearTimeout(timeout)
ClearTimeout(ts, handle) ==
    IF handle = <<>> THEN ts ELSE ts \ {handle[1]}

\* the camera moves
CameraMove(view) ==
    /\ dsRef = "live"
    /\ view # camera
    /\ camera' = view
    /\ UNCHANGED <<clock, timers, timeout, lastMoveEnd, publishes>>
    /\ UNCHANGED <<sanitizerVars, syncVars, colorVars, apiVars, layer3dVars, selectVars, hovered,
                   legacyVars, fetchVars>>

\* camera.moveEnd is raised: handleMoveEnd of lines 168-180
MoveEnd ==
    /\ dsRef = "live"
    /\ timers' = ClearTimeout(timers, timeout) \cup {clock + Delay}
    /\ timeout' = <<clock + Delay>>
    /\ lastMoveEnd' = [at |-> clock, camera |-> camera, ran |-> FALSE]
    /\ UNCHANGED <<clock, camera, publishes>>
    /\ UNCHANGED <<sanitizerVars, syncVars, colorVars, apiVars, layer3dVars, selectVars, hovered,
                   legacyVars, fetchVars>>

\* a timer set by handleMoveEnd runs its callback (lines 170-179), not
\* before it is due
TimerFires(due) ==
    /\ dsRef = "live"
    /\ due \in timers
    /\ clock >= due
    /\ timers' = timers \ {due}
    /\ lastMoveEnd' = [lastMoveEnd EXCEPT !.ran = TRUE]
    /\ \E rect \in {computeViewRectangle(camera)} :
          IF rect # <<>>
          THEN /\ publishes' = publishes + 1
               /\ BoundsChange([west |-> toDegrees(rect[1].west),
                                south |-> toDegrees(rect[1].south),
                                east |-> toDegrees(rect[1].east),
                                north |-> toDegrees(rect[1].north)])
          ELSE UNCHANGED <<publishes, fetchVars>>
    /\ UNCHANGED <<clock, timeout, camera>>
    /\ UNCHANGED <<sanitizerVars, syncVars, colorVars, apiVars, layer3dVars, selectVars, hovered,
                   legacyVars>>

\* time passes
Tick ==
    /\ clock < MaxClock
    /\ clock' = clock + TickMs
    /\ UNCHANGED <<timers, timeout, camera, lastMoveEnd, publishes>>
    /\ UNCHANGED <<sanitizerVars, syncVars, colorVars, apiVars, layer3dVars, selectVars, hovered,
                   legacyVars, fetchVars>>

\* the data MapView hands to sync2dCorridorLayer
DataOf(data) == IF data = <<>> THEN NullData ELSE data[1]

\* toggleLayer('layer2d') (lines 208-210) and the render it causes: MapView's
\* sync effect and App's fetch effect run with the new flag
ToggleLayer ==
    /\ Len(passes) < MaxRenders
    /\ layer2dEnabled' = ~layer2dEnabled
    /\ SyncEffectRun([data |-> DataOf(data2d), enabled |-> ~layer2dEnabled,
                      style |-> DefaultStyle])
    /\ FetchEffect(mapBbox, ~layer2dEnabled)
    /\ UNCHANGED <<mapBbox, data2d>>
    /\ UNCHANGED <<sanitizerVars, colorVars, apiVars, layer3dVars, selectVars, hovered, legacyVars,
                   viewVars>>

NextViewport ==
    \/ \E view \in Views : CameraMove(view)
    \/ MoveEnd
    \/ \E due \in timers : TimerFires(due)
    \/ Tick
    \/ ToggleLayer

SpecViewport == Init /\ [][NextViewport]_vars

\* time passes, and a timer that is due runs its callback
SpecViewportFair ==
    /\ SpecViewport
    /\ WF_vars(Tick)
    /\ WF_vars(\E due \in timers : TimerFires(due))

----------------------------------------------------------------------------
(* App: the fetch settles *)

\* the collections the backend answers with: valid ones of one and of two
\* chunks, and one with a feature whose coordinates are null
FetchedCollections == {Three, Collection("big", BigN), Collection("nullCoords", 3)}

\* how fetch2dCorridors can settle: with a collection, with an error (HTTP
\* status, payload), or, once its signal is aborted, with the AbortError
FetchOutcomes(f) ==
    IF f.aborted THEN {[kind |-> "abort", data |-> NullData]}
    ELSE {[kind |-> "ok", data |-> c] : c \in FetchedCollections}
         \cup {[kind |-> "error", data |-> NullData]}

\* mutant of NotAborted: the handlers do not look at the signal
NotAbortedAlways(f) == TRUE

\* lines 230-231: !signal.aborted
NotAborted(f) == ~f.aborted

\* the promise of fetch k settles and the handlers of lines 229-231 run;
\* if data2d changed, MapView renders and its sync effect runs
FetchSettles(k, outcome) ==
    /\ fetches[k].status = "pending"
    /\ fetches' = [fetches EXCEPT ![k].status =
                      IF outcome.kind = "ok" THEN "fulfilled" ELSE "rejected"]
    /\ data2d' = IF outcome.kind = "ok" THEN <<outcome.data>>
                 ELSE IF NotAborted(fetches[k]) THEN <<>> ELSE data2d
    /\ error2d' = IF outcome.kind # "ok" /\ NotAborted(fetches[k])
                  THEN <<"Failed to fetch 2d-corridors">> ELSE error2d
    /\ loading2d' = IF NotAborted(fetches[k]) THEN FALSE ELSE loading2d
    /\ IF outcome.kind = "ok" \/ data2d' # data2d
       THEN /\ Len(passes) < MaxRenders
            /\ SyncEffectRun([data |-> DataOf(data2d'), enabled |-> layer2dEnabled,
                              style |-> DefaultStyle])
       ELSE UNCHANGED syncVars
    /\ UNCHANGED <<mapBbox, layer2dEnabled>>
    /\ UNCHANGED <<sanitizerVars, colorVars, apiVars, layer3dVars, selectVars, hovered, legacyVars,
                   viewVars>>

\* the viewport loop publishes the bounding box of a view
BoundsPublished(view) ==
    /\ dsRef = "live"
    /\ computeViewRectangle(view) # <<>>
    /\ \E rect \in {computeViewRectangle(view)[1]} :
          BoundsChange([west |-> toDegrees(rect.west), south |-> toDegrees(rect.south),
                        east |-> toDegrees(rect.east), north |-> toDegrees(rect.north)])
    /\ UNCHANGED <<sanitizerVars, syncVars, colorVars, apiVars, layer3dVars, selectVars, hovered,
                   legacyVars, viewVars>>

NextFetch ==
    \/ BoundsPublished("city")
    \/ ToggleLayer
    \/ \E k \in 1..Len(fetches) :
          \E outcome \in FetchOutcomes(fetches[k]) : FetchSettles(k, outcome)
    \/ Frame

SpecFetch == Init /\ [][NextFetch]_vars

----------------------------------------------------------------------------
(* App and MapView: the 2D and the 3D layer side by side *)

\* layerStyles.layer3d of App's DEFAULT_STYLES: '#64c864', 0.55
DefaultStyle3d == Style(<<100, 200, 100>>, Fin(55))

\* cesiumCorridorLayer.ts lines 283-288: the material of a 3D feature's polygons
Material3d(props, range, style) ==
    LET material == getColor3d(props, range)
    IN  IF style.hex # NoHex
        THEN hexToColor(style.hex,
                        IF style.alpha.k = "undef" THEN material.alpha
                        ELSE style.alpha.v * 255)
        ELSE IF style.alpha.k # "undef" THEN applyAlpha(material, style.alpha.v)
        ELSE material

\* sync3dCorridorLayer for a collection of at most one chunk, up to the
\* return of its promise: [status, ents]. It walks the features as
\* sync2dCorridorLayer does (lines 256-317 against 195-254); its primitives
\* differ in the layer tag and the material.
sync3dCorridorLayer(ds, ents, data, range, enabled, style) ==
    Let(sync2dCorridorLayer(ds, ents,
                            NewPass([data |-> data, enabled |-> enabled, style |-> style],
                                    range, TRUE), 0),
        LAMBDA r :
            [status |-> r.pass.status,
             ents |-> [k \in 1..Len(r.ents) |->
                          [r.ents[k] EXCEPT !.layer = "3d",
                                            !.material = Material3d(r.ents[k].corridorProps,
                                                                    range, style)]]])

\* the collections the backend answers with here: of at most one chunk,
\* one of them with a null entry in features
LayerCollections == {Three, Collection("multi", 2), Collection("nullEntry", 3)}

LayerOutcomes(aborted) ==
    IF aborted THEN {[kind |-> "abort", data |-> NullData]}
    ELSE {[kind |-> "ok", data |-> c] : c \in LayerCollections}
         \cup {[kind |-> "error", data |-> NullData]}

\* a computePriorityRange function throws while MapView renders: React
\* unmounts the tree and the cleanups of all effects run; the viewer with
\* the containers of all layers is destroyed, the controllers are aborted
UnmountAll ==
    /\ dsRef' = "null"
    /\ entities' = <<>>
    /\ entities3d' = <<>>
    /\ passes' = AbortLatest(passes)

\* the viewport loop publishes a bounding box: the fetch effects of both
\* layers run (App.tsx lines 220-233 and 235-248, layersEnabled.layer3d is
\* true)
BoundsPublishedLayers ==
    /\ dsRef = "live"
    /\ computeViewRectangle("city") # <<>>
    /\ \E rect \in {computeViewRectangle("city")[1]} :
          BoundsChange([west |-> toDegrees(rect.west), south |-> toDegrees(rect.south),
                        east |-> toDegrees(rect.east), north |-> toDegrees(rect.north)])
    /\ fetch3d' = "pending"
    /\ loading3d' = TRUE
    /\ error3d' = <<>>
    /\ UNCHANGED <<data3d, entities3d, processing3d>>
    /\ UNCHANGED <<sanitizerVars, syncVars, colorVars, apiVars, selectVars, hovered,
                   legacyVars, viewVars>>

\* the promise of fetch2dCorridors call k settles (App.tsx lines 228-231);
\* MapView renders with the new data2d
Fetch2dSettles(k, outcome) ==
    IF outcome.kind = "ok" /\ computePriorityRange2d(outcome.data).threw
    THEN /\ fetches[k].status = "pending"
         /\ dsRef = "live"
         /\ fetches' = [fetches EXCEPT ![k].status = "fulfilled", ![k].aborted = TRUE]
         /\ data2d' = <<outcome.data>>
         /\ UnmountAll
         /\ fetch3d' = IF fetch3d = "pending" THEN "aborted" ELSE fetch3d
         /\ UNCHANGED <<mapBbox, layer2dEnabled, loading2d, error2d, frameQueue,
                        processing2d, data3d, loading3d, error3d, processing3d>>
         /\ UNCHANGED <<sanitizerVars, colorVars, apiVars, selectVars, hovered, legacyVars,
                        viewVars>>
    ELSE FetchSettles(k, outcome)

\* the promise of the latest fetch3dNetwork call settles (App.tsx lines
\* 243-246); MapView renders with the new data3d and its 3D effect (part_001
\* lines 115-130) runs
Fetch3dSettles(outcome) ==
    /\ fetch3d \in {"pending", "aborted"}
    /\ outcome \in LayerOutcomes(fetch3d = "aborted")
    /\ fetch3d' = "settled"
    /\ IF outcome.kind = "abort"
       THEN UNCHANGED <<data3d, loading3d, error3d, entities3d, processing3d, syncVars,
                        fetchVars>>
       ELSE IF outcome.kind = "error"
       THEN /\ data3d' = <<>>
            /\ error3d' = <<"Failed to fetch 3d-network">>
            /\ loading3d' = FALSE
            /\ IF data3d # <<>>
               THEN \E r \in {sync3dCorridorLayer(dsRef, entities3d, NullData, NoRange,
                                                   TRUE, DefaultStyle3d)} :
                        /\ entities3d' = r.ents
                        /\ processing3d' = (r.status # "resolved")
               ELSE UNCHANGED <<entities3d, processing3d>>
            /\ UNCHANGED <<syncVars, fetchVars>>
       ELSE /\ data3d' = <<outcome.data>>
            /\ \E pr \in {computePriorityRange3d(outcome.data)} :
                  IF pr.threw
                  THEN /\ UnmountAll
                       /\ fetches' = AbortLatestFetch(fetches)
                       /\ UNCHANGED <<frameQueue, processing2d, mapBbox, layer2dEnabled,
                                      data2d, loading2d, error2d, loading3d, error3d,
                                      processing3d>>
                  ELSE /\ loading3d' = FALSE
                       /\ \E r \in {sync3dCorridorLayer(dsRef, entities3d, outcome.data,
                                                         pr.range, TRUE, DefaultStyle3d)} :
                             /\ entities3d' = r.ents
                             /\ processing3d' = (r.status # "resolved")
                       /\ UNCHANGED <<error3d, syncVars, fetchVars>>
    /\ UNCHANGED <<sanitizerVars, colorVars, apiVars, selectVars, hovered, legacyVars,
                   viewVars>>

NextLayers ==
    \/ BoundsPublishedLayers
    \/ ToggleLayer
    \/ \E k \in 1..Len(fetches) :
          \E outcome \in LayerOutcomes(fetches[k].aborted) : Fetch2dSettles(k, outcome)
    \/ \E outcome \in LayerOutcomes(fetch3d = "aborted") : Fetch3dSettles(outcome)

SpecLayers == Init /\ [][NextLayers]_vars

----------------------------------------------------------------------------
(* api: the fetch operations *)

\* a parsed JSON value: its kind and, of an object, what the members type and
\* features hold (the tag, and the kind of value of features)
Json(kind, type, features) == [kind |-> kind, type |-> type, features |-> features]

\* values that are no object with members
Scalars ==
    {Json(k, Undefined, Undefined) :
        k \in {"null", "false", "true", "zero", "number", "emptyString", "string",
               "array"}}

Objects ==
    {Json("object", t, f) :
        t \in {Undefined, "FeatureCollection", "Feature", "featurecollection"},
        f \in {Undefined, "null", "array", "object", "string"}}

\* the responses of the backend: status and body, <<>> for a body that is
\* not JSON
Responses ==
    {[status |-> st, body |-> b] :
        st \in {200, 204, 304, 404, 500},
        b \in {<<>>} \cup {<<j>> : j \in Scalars \cup Objects}}

\* Response.ok
ResponseOk(res) == res.status \in 200..299

\* !json
Falsy(json) == json.kind \in {"null", "false", "zero", "emptyString"}

\* typeof json
TypeOf(json) ==
    CASE json.kind \in {"null", "array", "object"} -> "object"
      [] json.kind \in {"false", "true"} -> "boolean"
      [] json.kind \in {"zero", "number"} -> "number"
      [] OTHER -> "string"

Rejected(text, endpoint, status) ==
    [status |-> "rejected", error |-> [text |-> text, endpoint |-> endpoint,
                                       status |-> status],
     value |-> Json("null", Undefined, Undefined)]

Fulfilled(json) ==
    [status |-> "fulfilled", error |-> [text |-> "", endpoint |-> "", status |-> 0],
     value |-> json]

\* mutant of assertFeatureCollection: the features member is not looked at
assertFeatureCollectionTagOnly(json) ==
    \/ Falsy(json)
    \/ TypeOf(json) # "object"
    \/ json.type # "FeatureCollection"

\* assertFeatureCollection throws
assertFeatureCollection(json) ==
    \/ Falsy(json)
    \/ TypeOf(json) # "object"
    \/ json.type # "FeatureCollection"
    \/ json.features # "array"

\* fetch2dCorridors, fetch3dNetwork, fetchHdbFootprints: the promise returned
\* when the request is answered with res
fetchCollection(endpoint, res) ==
    IF ~ResponseOk(res)
    THEN Rejected("Failed to fetch", endpoint, res.status)
    ELSE IF res.body = <<>>
         THEN Rejected("SyntaxError", "", 0)
         ELSE IF assertFeatureCollection(res.body[1])
              THEN Rejected("Invalid GeoJSON: expected a FeatureCollection", "", 0)
              ELSE Fulfilled(res.body[1])

Endpoints == {"2d-corridors", "3d-network", "hdb-footprints"}

InitApi ==
    /\ SanitizerIdle /\ SyncIdle /\ ColorIdle /\ SelectIdle
    /\ hovered = NoHover
    /\ selectedEntityRef = <<>> /\ selectedOrigColorRef = <<>> /\ selectedSingle = <<>>
    /\ clock = 0 /\ timers = {} /\ timeout = <<>> /\ camera = "city"
    /\ lastMoveEnd = [at |-> 0, camera |-> "city", ran |-> FALSE]
    /\ publishes = 0
    /\ mapBbox = <<>> /\ layer2dEnabled = FALSE /\ fetches = <<>>
    /\ data2d = <<>> /\ loading2d = FALSE /\ error2d = <<>>
    /\ Layer3dIdle
    /\ apiCall \in {[op |-> e, res |-> <<r>>, result |-> <<>>] :
                       e \in Endpoints, r \in Responses}

\* the request is answered and the promise of the operation settles
CallFetch ==
    /\ apiCall.result = <<>>
    /\ apiCall' = [apiCall EXCEPT !.result = <<fetchCollection(apiCall.op, apiCall.res[1])>>]
    /\ UNCHANGED <<sanitizerVars, syncVars, colorVars, selectVars, hovered,
                   legacyVars, viewVars, fetchVars, layer3dVars>>

NextApi == CallFetch

SpecApi == InitApi /\ [][NextApi]_vars

----------------------------------------------------------------------------
(* Claims about the sanitizer, checked under SpecSanitize *)

\* a point with finite numeric longitude and latitude
FiniteNumeric(p) == p.arr /\ IsFinite(p.lon) /\ IsFinite(p.lat)

AllFiniteNumeric(ring) ==
    ring.t = "arr" /\ \A k \in 1..Len(ring.pts) : FiniteNumeric(ring.pts[k])

\* the vertices left by the consecutive-duplicate filter, as a set
KeptVertices(ring) ==
    LET out == RingLoop(ring.pts, 1, RingStart).out
    IN  {<<out[2 * j - 1], out[2 * j]>> : j \in 1..(Len(out) \div 2)}

\* C5: a ring with fewer than 3 distinct vertices after deduplication yields
\* no polygon hierarchy. Stated for rings of finite points only, so that a
\* violation does not rest on the treatment of Infinity (C7).
C5_FewDistinctRejected ==
    (/\ pcS = "hier"
     /\ Len(inRings) > 0
     /\ AllFiniteNumeric(inRings[1])
     /\ Cardinality(KeptVertices(inRings[1])) < 3)
    => hier.kind = "null"

\* the bounding box of the finite-numeric points of a ring is thinner than
\* the tolerance in longitude or in latitude
FiniteLons(ring) == {ring.pts[k].lon.v : k \in {j \in 1..Len(ring.pts) : FiniteNumeric(ring.pts[j])}}
FiniteLats(ring) == {ring.pts[k].lat.v : k \in {j \in 1..Len(ring.pts) : FiniteNumeric(ring.pts[j])}}
Spread(S) == CHOOSE d \in 0..Tol + 2 : \E a \in S, b \in S : /\ d = b - a
                                                        /\ \A c \in S : a <= c /\ c <= b
ThinBox(ring) ==
    /\ ring.t = "arr"
    /\ FiniteLons(ring) # {}
    /\ Spread(FiniteLons(ring)) < Tol \/ Spread(FiniteLats(ring)) < Tol

\* C6: a ring whose valid points have a bounding box thinner than the
\* tolerance is rejected: the flat list is empty and no hierarchy is built.
C6_ThinBoxRejected ==
    (Len(inRings) > 0 /\ ThinBox(inRings[1]))
    => /\ pcS = "flat" => flat.out = <<>>
       /\ pcS = "hier" => hier.kind = "null"

\* C7: no coordinate that is not a finite number appears in the output, and
\* no kept point is within the tolerance of the point kept before it.
C7_NonFiniteDropped ==
    pcS = "flat" =>
        /\ \A j \in 1..Len(flat.out) : IsFinite(flat.out[j])
        /\ \A j \in 2..(Len(flat.out) \div 2) :
              ~(/\ Lt(Abs(Sub(flat.out[2 * j - 1], flat.out[2 * j - 3])), Fin(Tol))
                /\ Lt(Abs(Sub(flat.out[2 * j], flat.out[2 * j - 2])), Fin(Tol)))

\* the sanitizer accepts the ring: it can be walked and leaves 3 vertices
RingAccepted(ring) ==
    /\ ring.t = "arr"
    /\ Len(ringToDegreesFlat(ring).out) >= 6

\* the flat lists of the accepted rings among rings[k..], in their order
RECURSIVE AcceptedFrom(_, _)
AcceptedFrom(rings, k) ==
    IF k > Len(rings) THEN <<>>
    ELSE IF RingAccepted(rings[k])
         THEN <<ringToDegreesFlat(rings[k]).out>> \o AcceptedFrom(rings, k + 1)
    ELSE AcceptedFrom(rings, k + 1)

\* C11: a polygon whose outer ring is accepted yields a hierarchy, and the
\* holes of the hierarchy are exactly the accepted holes, in their original
\* order; a hole that is not accepted never rejects the polygon.
C11_RejectedHoleDropped ==
    (/\ pcS = "hier"
     /\ Len(inRings) > 0
     /\ RingAccepted(inRings[1]))
    => /\ hier.kind = "hier"
       /\ hier.holes = AcceptedFrom(inRings, 2)

----------------------------------------------------------------------------
(* Claims about the synchroniser, checked under Spec *)

Latest == Len(passes)

InFrameQueue(pid) == \E k \in 1..Len(frameQueue) : frameQueue[k] = pid

AllSettled == \A pid \in 1..Len(passes) : passes[pid].status # "pending"

\* the properties the entities of features[i] are to carry
SourceProps(data, i) ==
    IF FeatureAt(data, i).hasProps THEN FeatureAt(data, i).props ELSE EmptyProps

\* entity e was built from features of the collection data by pass pid
BuiltFrom(e, pid, data) ==
    /\ e.pass = pid
    /\ ~data.isNull
    /\ e.feat \in 0..(data.n - 1)
    /\ e.corridorProps = SourceProps(data, e.feat)

\* C1: once every pass has settled, the container holds only primitives
\* built by the latest pass from its own collection, never primitives of a
\* pass that was superseded mid-flight.
C1_OnlyLatestPassRemains ==
    (Len(passes) >= 2 /\ AllSettled) =>
        \A k \in 1..Len(entities) :
            BuiltFrom(entities[k], Latest, passes[Latest].data)

\* pass 1 was superseded after its first chunk and before its last one, and
\* both passes have settled, pass 2 with primitives in the container
C1_Witness ==
    /\ Len(passes) = 2
    /\ passes[1].data.n > ChunkSize
    /\ passes[1].i >= ChunkSize /\ passes[1].i < passes[1].data.n
    /\ passes[1].via = "abort"
    /\ passes[2].via = "done"
    /\ Len(entities) > 0

\* C2: every call resolves its promise exactly once: the promise is never
\* rejected, resolve is never called twice, a promise is resolved by one call
\* of resolve on one of the four paths, and a pending promise always has a
\* frame callback requested that will settle it.
C2_ResolvedExactlyOnce ==
    \A pid \in 1..Len(passes) :
        /\ passes[pid].status # "rejected"
        /\ passes[pid].resolveCalls <= 1
        /\ passes[pid].status = "resolved" =>
              /\ passes[pid].resolveCalls = 1
              /\ passes[pid].via \in {"nods", "idle", "abort", "done"}
        /\ passes[pid].status = "pending" => InFrameQueue(pid)

\* C3: a call with a container removes every primitive that was in it: right
\* after the call the container holds primitives of the new pass only.
C3_ClearedOnEveryCall ==
    [][(Len(passes') = Len(passes) + 1 /\ dsRef = "live") =>
          \A k \in 1..Len(entities') : entities'[k].pass = Len(passes')]_vars

\* a pass that had filled the container was followed by a call for the
\* disabled layer, which left the container empty
C3_Witness ==
    /\ Len(passes) = 2
    /\ passes[1].data = Three /\ passes[1].via = "done"
    /\ ~passes[2].enabled
    /\ dsRef = "live"
    /\ entities = <<>>

IsTrivialCall(pass) == ~pass.enabled \/ pass.data.isNull \/ pass.data.n = 0

\* C4: a call for a disabled layer, null data or an empty collection leaves
\* the container empty, and resolves before it returns without requesting a
\* frame.
C4_TrivialCallSettlesAtOnce ==
    \A pid \in 1..Len(passes) :
        IsTrivialCall(passes[pid]) =>
            /\ passes[pid].status = "resolved"
            /\ passes[pid].settledInCall
            /\ passes[pid].frames = 0
            /\ (pid = Latest /\ dsRef = "live") => entities = <<>>

\* an empty collection, then null data, each settled within the call
C4_Witness ==
    /\ Len(passes) = 2
    /\ passes[1].enabled /\ ~passes[1].data.isNull /\ passes[1].data.n = 0
    /\ passes[1].via = "done" /\ passes[1].settledInCall
    /\ passes[2].data.isNull /\ passes[2].via = "idle"
    /\ entities = <<>>

\* C8: no exception leaves a pass, and a pass that is neither cancelled nor
\* waiting for a frame has processed every feature and has resolved.
C8_MalformedFeatureSkipped ==
    \A pid \in 1..Len(passes) :
        /\ ~passes[pid].threw
        /\ (/\ passes[pid].enabled /\ ~passes[pid].data.isNull
            /\ ~passes[pid].aborted /\ ~InFrameQueue(pid))
           => /\ passes[pid].i = passes[pid].data.n
              /\ passes[pid].status = "resolved"

\* the polygons of a feature: one for a Polygon, the constituent polygons of
\* a MultiPolygon, none without geometry
ClaimedPolygons(feature) ==
    IF feature.isNull \/ ~feature.hasGeom THEN <<>>
    ELSE IF feature.geom.type \in {"Polygon", "MultiPolygon"} /\ feature.geom.coords = "arr"
         THEN feature.geom.polys
    ELSE <<>>

\* the sanitizer accepts the outer ring of the polygon
OuterRingAccepted(poly) ==
    /\ poly.t = "arr"
    /\ Len(poly.rings) > 0
    /\ poly.rings[1].t = "arr"
    /\ Len(ringToDegreesFlat(poly.rings[1]).out) >= 6

\* the renderer accepts the polygon: its construction does not throw
RendererAccepts(poly) ==
    /\ poly.host = "ok"
    /\ \A k \in 2..Len(poly.rings) : poly.rings[k].t = "arr"

MaxPolys == 3

\* the (feature index, polygon index) pairs that are to yield a primitive
ExpectedPrimitives(data) ==
    {fk \in (0..(data.n - 1)) \X (1..MaxPolys) :
        /\ fk[2] <= Len(ClaimedPolygons(FeatureAt(data, fk[1])))
        /\ OuterRingAccepted(ClaimedPolygons(FeatureAt(data, fk[1]))[fk[2]])
        /\ RendererAccepts(ClaimedPolygons(FeatureAt(data, fk[1]))[fk[2]])}

\* the latest pass ran to its last chunk and has not been cancelled
LatestCompleted ==
    /\ Len(passes) > 0
    /\ dsRef = "live"
    /\ passes[Latest].via = "done"

EntitiesOf(i) == {k \in 1..Len(entities) : entities[k].feat = i}

\* C10: a MultiPolygon feature has one primitive per constituent polygon
\* with an accepted outer ring, each with the feature's properties, the
\* layer tag and the same material; one valid polygon and one 2-point
\* polygon give exactly 1 primitive.
C10_MultiPolygonExpands ==
    LatestCompleted =>
        \A i \in 0..(passes[Latest].data.n - 1) :
            LET feature == FeatureAt(passes[Latest].data, i)
            IN  (~feature.isNull /\ feature.hasGeom /\ feature.geom.type = "MultiPolygon") =>
                  /\ {entities[k].poly : k \in EntitiesOf(i)} =
                        {j \in 1..Len(feature.geom.polys) :
                            /\ OuterRingAccepted(feature.geom.polys[j])
                            /\ RendererAccepts(feature.geom.polys[j])}
                  /\ \A k \in EntitiesOf(i), l \in EntitiesOf(i) :
                        entities[k].poly = entities[l].poly => k = l
                  /\ \A k \in EntitiesOf(i) :
                        /\ entities[k].corridorProps = SourceProps(passes[Latest].data, i)
                        /\ entities[k].layer = "2d"
                        /\ \A l \in EntitiesOf(i) : entities[l].material = entities[k].material
                  /\ feature.geom.polys = <<Square, TwoPoint>> =>
                        Cardinality(EntitiesOf(i)) = 1

C10_Witness ==
    /\ LatestCompleted
    /\ passes[Latest].data = Collection("multi", 2)
    /\ Cardinality(EntitiesOf(0)) = 1
    /\ Cardinality(EntitiesOf(1)) = 2

\* the polygon reaches the renderer, which throws on it
RendererThrows(poly) == poly.host # "ok" /\ OuterRingAccepted(poly)

\* every entry of the collection has the shape the types promise
WellFormedPoly(poly) ==
    /\ poly.t = "arr"
    /\ \A k \in 1..Len(poly.rings) : poly.rings[k].t = "arr"

WellFormed(data) ==
    /\ ~data.isNull
    /\ \A i \in 0..(data.n - 1) :
          LET feature == FeatureAt(data, i)
          IN  /\ ~feature.isNull
              /\ feature.hasGeom => feature.geom.coords = "arr"
              /\ \A k \in 1..Len(ClaimedPolygons(feature)) :
                    WellFormedPoly(ClaimedPolygons(feature)[k])

\* the polygon entity e was built from
PolygonOf(e) == ClaimedPolygons(FeatureAt(passes[e.pass].data, e.feat))[e.poly]

\* the (feature index, polygon index) pairs the renderer throws on
ThrownPolygons(data) ==
    {fk \in (0..(data.n - 1)) \X (1..MaxPolys) :
        /\ fk[2] <= Len(ClaimedPolygons(FeatureAt(data, fk[1])))
        /\ RendererThrows(ClaimedPolygons(FeatureAt(data, fk[1]))[fk[2]])}

\* fk comes after gh in the order of processing
ComesAfter(fk, gh) == fk[1] > gh[1] \/ (fk[1] = gh[1] /\ fk[2] > gh[2])

\* C12: a polygon the renderer throws on is dropped alone: no exception
\* leaves a pass over a well-formed collection, the container holds no
\* primitive of such a polygon, and the accepted polygons that come after it
\* have their primitive once the pass has completed.
C12_RendererThrowContained ==
    /\ \A pid \in 1..Len(passes) :
          (passes[pid].threw \/ passes[pid].status = "rejected")
              => ~WellFormed(passes[pid].data)
    /\ \A k \in 1..Len(entities) : ~RendererThrows(PolygonOf(entities[k]))
    /\ LatestCompleted =>
          \A gh \in ThrownPolygons(passes[Latest].data) :
              \A fk \in ExpectedPrimitives(passes[Latest].data) :
                  ComesAfter(fk, gh) =>
                      \E k \in 1..Len(entities) :
                          entities[k].feat = fk[1] /\ entities[k].poly = fk[2]

\* the renderer threw while building one polygon and while adding another;
\* the two polygons after them are in the container
C12_Witness ==
    /\ LatestCompleted
    /\ passes[Latest].data = Collection("hostThrow", 3)
    /\ passes[Latest].status = "resolved"
    /\ Len(entities) = 2
    /\ entities[1].feat = 1 /\ entities[1].poly = 2
    /\ entities[2].feat = 2

\* the colour the 2D mapper gives to the feature entity e was built from
MapperColor(e) == getColor2d(e.corridorProps, passes[e.pass].range)

SameRGB(c, d) == c.red = d.red /\ c.green = d.green /\ c.blue = d.blue

\* the colour of the style's hex string, with alpha a
HexRGB(hex, a) == Color(hex[1] * LerpUnit, hex[2] * LerpUnit, hex[3] * LerpUnit, a)

\* C13: with a style hex every primitive has the hex as RGB, whatever its
\* priority, and the style alpha if given, else the mapper's alpha; with a
\* style alpha only it has the mapper's RGB and the style alpha; with neither
\* it has the mapper's colour unchanged.
C13_StyleOverride ==
    \A k \in 1..Len(entities) :
        LET e == entities[k]
            style == passes[e.pass].style
        IN  /\ (style.hex # NoHex /\ style.alpha.k # "undef") =>
                  e.material = HexRGB(style.hex, style.alpha.v * 255)
            /\ (style.hex # NoHex /\ style.alpha.k = "undef") =>
                  e.material = HexRGB(style.hex, MapperColor(e).alpha)
            /\ (style.hex = NoHex /\ style.alpha.k # "undef") =>
                  /\ SameRGB(e.material, MapperColor(e))
                  /\ e.material.alpha = style.alpha.v * 255
            /\ (style.hex = NoHex /\ style.alpha.k = "undef") =>
                  e.material = MapperColor(e)

\* two features of different priority under a style with a hex and alpha 0:
\* both primitives have the hex colour, fully transparent
C13_Witness ==
    /\ LatestCompleted
    /\ passes[Latest].data = Three
    /\ passes[Latest].style = Style(<<77, 166, 255>>, Fin(0))
    /\ Len(entities) = 2
    /\ entities[1].corridorProps.priorityID # entities[2].corridorProps.priorityID
    /\ ~SameRGB(MapperColor(entities[1]), MapperColor(entities[2]))
    /\ entities[1].material = entities[2].material
    /\ entities[1].material.alpha = 0

----------------------------------------------------------------------------
(* Claims about the colour mappers, checked under SpecColor *)

\* the priorityID of feature i of the collection; it is a number or a
\* numeric string
PriorityOf(i) == FeatureAt(cData, i - 1).props.priorityID
HasValue(i) == PriorityOf(i).k \in {"fin", "numstr"}

\* the mapper interpolated for feature i
Interpolated(i) == cOut[i].t.k = "fin"

\* C14: for a fixed range, t lies in [0,1] for every value, the values below
\* min and above max included, and value A < value B gives t(A) <= t(B).
C14_MonotonicAndClamped ==
    pcC = "mapped" =>
        \A i \in 1..Len(cOut) :
            Interpolated(i) =>
                /\ 0 <= cOut[i].t.v /\ cOut[i].t.v <= LerpUnit
                /\ \A j \in 1..Len(cOut) :
                      (Interpolated(j) /\ PriorityOf(i).v < PriorityOf(j).v)
                          => cOut[i].t.v <= cOut[j].t.v

\* range {4, 10}: the value 1 below min has t = 0, the value 13 above max
\* has t = 1
C14_Witness ==
    /\ pcC = "mapped"
    /\ cLayer = "2d"
    /\ cRange = [isNull |-> FALSE, min |-> 4, max |-> 10]
    /\ Len(cOut) = 2
    /\ PriorityOf(1) = Fin(1) /\ cOut[1].t = Fin(0)
    /\ PriorityOf(2) = NumericString(13) /\ cOut[2].t = Fin(LerpUnit)

\* the range MapView computes for the collection, for the layer in use
RangeOfCollection ==
    IF cLayer = "2d" THEN computePriorityRange2d(cData).range
    ELSE computePriorityRange3d(cData).range

\* C15: when the range computed for the collection has min = max, every
\* feature with a numeric priority (number or numeric string) is mapped with
\* t = 0 to one and the same colour, by the 2D and by the 3D mapper.
C15_DegenerateRange ==
    (/\ pcC = "mapped"
     /\ cRange = RangeOfCollection
     /\ ~cRange.isNull
     /\ cRange.min = cRange.max)
    => \A i \in 1..Len(cOut) :
          HasValue(i) =>
              /\ cOut[i].t = Fin(0)
              /\ \A j \in 1..Len(cOut) : HasValue(j) => cOut[j].color = cOut[i].color

\* the endpoint colours of the layer in use
LightEndpoint == fromBytes(255, 255, 204, IF cLayer = "2d" THEN 135 ELSE 140)
DarkEndpoint == fromBytes(177, 0, 38, IF cLayer = "2d" THEN 135 ELSE 140)

\* C16: for a range with min < max, a priority equal to max gives t = 1 and
\* exactly the dark endpoint, a priority equal to min gives t = 0 and exactly
\* the light endpoint; range {1, 10} and priority 10 give t = 1.
C16_EndpointsExact ==
    (pcC = "mapped" /\ ~cRange.isNull /\ cRange.min < cRange.max) =>
        \A i \in 1..Len(cOut) :
            Interpolated(i) =>
                /\ PriorityOf(i).v = cRange.max =>
                      cOut[i].t = Fin(LerpUnit) /\ cOut[i].color = DarkEndpoint
                /\ PriorityOf(i).v = cRange.min =>
                      cOut[i].t = Fin(0) /\ cOut[i].color = LightEndpoint

\* the 2D collection with priorities 1 and 10: range {1, 10}, light and dark
C16_Witness ==
    /\ pcC = "mapped"
    /\ cLayer = "2d"
    /\ cRange = [isNull |-> FALSE, min |-> 1, max |-> 10]
    /\ Len(cOut) = 2
    /\ PriorityOf(1) = Fin(1) /\ PriorityOf(2) = Fin(10)
    /\ cOut[1].t = Fin(0) /\ cOut[1].color = fromBytes(255, 255, 204, 135)
    /\ cOut[2].t = Fin(LerpUnit) /\ cOut[2].color = fromBytes(177, 0, 38, 135)

\* the colour the 3D mapper falls back to for a corridor type
ExpectedByType(type) ==
    CASE type = "open_space" -> fromBytes(100, 180, 255, 140)
      [] type = "above_building" -> fromBytes(255, 160, 80, 140)
      [] OTHER -> fromBytes(120, 200, 120, 140)

\* C17: without a numeric priority, or with a null range, the 2D mapper
\* returns its fixed default colour and the 3D mapper the colour of the
\* corridor type, the neutral default for an absent or unknown type; the
\* result depends on the arguments only.
C17_Fallback ==
    pcC = "mapped" =>
        \A i \in 1..Len(cOut) :
            /\ (~HasValue(i) \/ cRange.isNull) =>
                  /\ ~Interpolated(i)
                  /\ cLayer = "2d" => cOut[i].color = fromBytes(80, 160, 255, 135)
                  /\ cLayer = "3d" =>
                        cOut[i].color =
                            ExpectedByType(FeatureAt(cData, i - 1).props.corridor_type)
            /\ \A j \in 1..Len(cOut) :
                  FeatureAt(cData, j - 1).props = FeatureAt(cData, i - 1).props
                      => cOut[j] = cOut[i]

----------------------------------------------------------------------------
(* Claims about click selection, checked under SpecSelect *)

\* the entity is in the selection set
InSelection(e) ==
    \E k \in 1..Len(selectedEntities) : selectedEntities[k].entity = EntityId(e)

\* the colour the entity was added with, which it shows until it is selected
FirstColor(e) == Material(e.corridorProps, passes[e.pass].range, passes[e.pass].style)

\* C18: a click that picks primitives of the selection set, and no primitive
\* outside of it (it recolours none), leaves the selection set with its saved
\* colours, the displayed colours and the published list unchanged; no saved
\* colour is ever the highlight colour.
C18_ReclickIsNoOp ==
    /\ [](\A k \in 1..Len(selectedEntities) :
              selectedEntities[k].color # HighlightColor)
    /\ [][(/\ passes' = passes
            /\ lastOp'.op = "click"
            /\ lastOp'.known > 0
            /\ \A k \in 1..Len(entities) :
                  entities'[k] # entities[k] => InSelection(entities[k]))
           => UNCHANGED <<selectedEntities, selected, entities>>]_vars

\* the selected primitive was clicked again: one entry, one published item,
\* the entry's saved colour is still the primitive's own colour
C18_Witness ==
    /\ lastOp = [op |-> "click", n |-> 0, known |-> 1, hits |-> <<1>>]
    /\ Len(selectedEntities) = 1
    /\ selectedEntities[1].entity = EntityId(entities[1])
    /\ selectedEntities[1].color = FirstColor(entities[1])
    /\ entities[1].material = HighlightColor
    /\ Len(selected.items) = 1

\* C19: clear gives every primitive the colour it had before its first
\* selection, whatever clicks came before.
C19_ExactRestore ==
    [][ClearSelection =>
          \A k \in 1..Len(entities') :
              entities'[k].material = FirstColor(entities[k])]_vars

\* two primitives of different colours were selected and cleared
C19_Witness ==
    /\ lastOp = [op |-> "clear", n |-> 2, known |-> 0, hits |-> <<>>]
    /\ Len(entities) = 2
    /\ entities[1].material = FirstColor(entities[1])
    /\ entities[2].material = FirstColor(entities[2])
    /\ entities[1].material # entities[2].material
    /\ selectedEntities = <<>>

\* C20: a primitive is in the selection set at most once; a primitive of the
\* container that is in the set shows the highlight colour; one that is not
\* shows its own colour, which is not the highlight colour.
C20_SelectionInvariant ==
    /\ \A j \in 1..Len(selectedEntities), k \in 1..Len(selectedEntities) :
          selectedEntities[j].entity = selectedEntities[k].entity => j = k
    /\ \A k \in 1..Len(entities) :
          IF InSelection(entities[k])
          THEN entities[k].material = HighlightColor
          ELSE /\ entities[k].material = FirstColor(entities[k])
               /\ entities[k].material # HighlightColor

\* after a rebuild: the entry of a primitive of the first pass is still in
\* the set; of the two primitives of the container one is selected
C20_Witness ==
    /\ Len(passes) = 2
    /\ Len(entities) = 2
    /\ Len(selectedEntities) = 2
    /\ selectedEntities[1].entity[1] = 1
    /\ selectedEntities[2].entity = EntityId(entities[2])
    /\ entities[1].material = FirstColor(entities[1])
    /\ entities[2].material = HighlightColor

\* a step of the LEFT_CLICK handler: lastOp'.hits is what drillPick returned
ClickTaken == passes' = passes /\ lastOp'.op = "click"

\* the primitive of a selection entry is in the container
EntryInContainer(k) ==
    \E j \in 1..Len(entities) : selectedEntities[k].entity = EntityId(entities[j])

\* C21: every selection entry references a primitive of the container, and
\* every item of the published list is the item of such an entry: a rebuild
\* leaves no entry and no published feature of a primitive it destroyed.
C21_RebuildClearsSelection ==
    /\ \A k \in 1..Len(selectedEntities) : EntryInContainer(k)
    /\ \A k \in 1..Len(selected.items) :
          k <= Len(selectedEntities) /\ EntryInContainer(k)

\* C22: a click whose pick is empty or holds only objects without metadata
\* changes neither the selection set, nor a colour, nor the published list;
\* the selection set and the published list are emptied by clear only.
C22_EmptyClickIsNoOp ==
    /\ [][(ClickTaken /\ \A k \in 1..Len(lastOp'.hits) : lastOp'.hits[k] = 0)
           => UNCHANGED <<selectedEntities, entities, selected>>]_vars
    /\ [][(\/ selectedEntities # <<>> /\ selectedEntities' = <<>>
           \/ ~selected.isNull /\ selected'.isNull)
           => (passes' = passes /\ lastOp'.op = "clear")]_vars

\* one primitive is selected and highlighted, then a click picked only an
\* object without metadata
C22_Witness ==
    /\ lastOp = [op |-> "click", n |-> 0, known |-> 0, hits |-> <<0>>]
    /\ Len(selectedEntities) = 1
    /\ selectedEntities[1].entity = EntityId(entities[1])
    /\ entities[1].material = HighlightColor
    /\ Len(selected.items) = 1

\* the positions of the pick that select: a primitive with metadata, not in
\* the selection set, not picked at an earlier position
FreshHits(hits) ==
    {k \in 1..Len(hits) :
        /\ hits[k] # 0
        /\ ~InSelection(entities[hits[k]])
        /\ \A j \in 1..(k - 1) : hits[j] # hits[k]}

\* C23: a click appends, for every fresh hit and in hit order, an entry with
\* the colour the primitive shows before the click and an item with its
\* properties and layer, after the existing entries and items; the fresh
\* hits show the highlight colour, every other primitive is unchanged.
C23_ClickSelectsAllHits ==
    [][ClickTaken =>
        LET hits == lastOp'.hits
            fresh == FreshHits(hits)
            n == Cardinality(fresh)
            rank(k) == Cardinality({j \in fresh : j <= k})
        IN  /\ Len(selectedEntities') = Len(selectedEntities) + n
            /\ SubSeq(selectedEntities', 1, Len(selectedEntities)) = selectedEntities
            /\ Len(selected'.items) = Len(selected.items) + n
            /\ SubSeq(selected'.items, 1, Len(selected.items)) = selected.items
            /\ selected'.isNull = (selected.isNull /\ n = 0)
            /\ \A k \in fresh :
                  /\ selectedEntities'[Len(selectedEntities) + rank(k)] =
                        [entity |-> EntityId(entities[hits[k]]),
                         color |-> entities[hits[k]].material]
                  /\ selected'.items[Len(selected.items) + rank(k)] =
                        [properties |-> entities[hits[k]].corridorProps,
                         layer |-> entities[hits[k]].layer]
                  /\ entities'[hits[k]] =
                        [entities[hits[k]] EXCEPT !.material = HighlightColor]
            /\ Len(entities') = Len(entities)
            /\ \A e \in 1..Len(entities) :
                  (\A k \in fresh : hits[k] # e) => entities'[e] = entities[e]]_vars

\* an entry existed; one click picked both primitives of the container,
\* the second one first, and appended their entries in that order
C23_Witness ==
    /\ lastOp = [op |-> "click", n |-> 2, known |-> 0, hits |-> <<2, 1>>]
    /\ Len(selectedEntities) = 3
    /\ selectedEntities[2] = [entity |-> EntityId(entities[2]),
                              color |-> FirstColor(entities[2])]
    /\ selectedEntities[3] = [entity |-> EntityId(entities[1]),
                              color |-> FirstColor(entities[1])]
    /\ Len(selected.items) = 3
    /\ selected.items[2].properties = entities[2].corridorProps
    /\ selected.items[3].properties = entities[1].corridorProps
    /\ entities[1].material = HighlightColor
    /\ entities[2].material = HighlightColor

\* C24: clear writes every entry's saved colour to its primitive, leaves
\* every other primitive as it is, empties the selection set and publishes
\* no selection; a clear that follows a clear changes none of them.
C24_ClearRestoresAndIsIdempotent ==
    /\ [][ClearSelection =>
            /\ \A k \in 1..Len(entities) :
                  /\ \A j \in 1..Len(selectedEntities) :
                        selectedEntities[j].entity = EntityId(entities[k])
                            => entities'[k] = [entities[k] EXCEPT !.material =
                                                  selectedEntities[j].color]
                  /\ ~InSelection(entities[k]) => entities'[k] = entities[k]
            /\ Len(entities') = Len(entities)
            /\ selectedEntities' = <<>>
            /\ selected' = NoSelection]_vars
    /\ [][(ClearSelection /\ lastOp.op = "clear")
            => UNCHANGED <<selectedEntities, entities, selected>>]_vars

\* after a rebuild, clear found the entry of a destroyed primitive and the
\* entries of the two primitives of the container, which show their own
\* colours again
C24_Witness ==
    /\ lastOp = [op |-> "clear", n |-> 3, known |-> 0, hits |-> <<>>]
    /\ Len(passes) = 2
    /\ Len(entities) = 2
    /\ \A k \in 1..Len(entities) : entities[k].material = FirstColor(entities[k])
    /\ selectedEntities = <<>>
    /\ selected = NoSelection

----------------------------------------------------------------------------
(* Claims about hover, checked under SpecHover *)

\* C25: a pointer move publishes the properties, the layer tag and the
\* pointer coordinates of the picked object when it is a primitive of the
\* layer or a foreign object with both metadata fields, and no hover
\* otherwise, whatever was published before; it changes no primitive, no
\* selection entry and no published selection.
C25_HoverReplacedReadOnly ==
    [][\A pos \in PointerPositions, pick \in PickInputs :
          MouseMove(pos, pick) =>
             /\ hovered' =
                   IF pick.kind = "entity"
                   THEN <<[x |-> pos.x, y |-> pos.y,
                           properties |-> entities[pick.k].corridorProps,
                           layer |-> "2d"]>>
                   ELSE IF /\ pick.kind = "foreign"
                           /\ pick.idProps # NoProperties
                           /\ pick.idLayer # Undefined
                   THEN <<[x |-> pos.x, y |-> pos.y,
                           properties |-> pick.idProps[1], layer |-> pick.idLayer]>>
                   ELSE NoHover
             /\ UNCHANGED <<entities, selectedEntities, selected>>]_vars

\* the pointer is over a selected primitive: its properties are published
\* as the hover and it still shows the highlight colour
C25_Witness ==
    /\ Len(entities) = 2
    /\ hovered = <<[x |-> 300, y |-> 40,
                    properties |-> entities[2].corridorProps, layer |-> "2d"]>>
    /\ Len(selectedEntities) = 1
    /\ selectedEntities[1].entity = EntityId(entities[2])
    /\ entities[2].material = HighlightColor

----------------------------------------------------------------------------
(* Claims about the single-select variant, checked under SpecSingle *)

\* the primitives of the container that show the highlight colour
Highlighted == {k \in 1..Len(entities) : entities[k].material = HighlightColor}

\* C26: at most one primitive shows the highlight colour, and it is the
\* selected one; the saved colour of a selected primitive of the container is
\* the colour it was added with, also after it was clicked again; a click
\* gives the previously selected primitive its saved colour, then highlights
\* the picked primitive, saves it and publishes it, or, when the pick has no
\* primitive with metadata, clears the two references and publishes none.
C26_SingleSelect ==
    /\ [](/\ Cardinality(Highlighted) <= 1
          /\ \A k \in Highlighted : selectedEntityRef = <<EntityId(entities[k])>>
          /\ \A k \in 1..Len(entities) :
                selectedEntityRef = <<EntityId(entities[k])>>
                    => selectedOrigColorRef = <<FirstColor(entities[k])>>)
    /\ [][\A pick \in SinglePickInputs :
            SingleClick(pick) =>
               /\ Len(entities') = Len(entities)
               /\ \A k \in 1..Len(entities) :
                     entities'[k] =
                        IF pick.kind = "entity" /\ pick.k = k
                        THEN [entities[k] EXCEPT !.material = HighlightColor]
                        ELSE IF selectedEntityRef = <<EntityId(entities[k])>>
                        THEN [entities[k] EXCEPT !.material = selectedOrigColorRef[1]]
                        ELSE entities[k]
               /\ IF pick.kind = "entity"
                  THEN /\ selectedEntityRef' = <<EntityId(entities[pick.k])>>
                       /\ selectedSingle' =
                             <<[properties |-> entities[pick.k].corridorProps,
                                layer |-> "2d"]>>
                       /\ selectedOrigColorRef' # <<>>
                  ELSE /\ selectedEntityRef' = <<>>
                       /\ selectedOrigColorRef' = <<>>
                       /\ selectedSingle' = <<>>]_vars

\* the selected primitive was clicked again: it is the only highlighted one
\* and its saved colour is still the colour it was added with
C26_Witness ==
    /\ lastOp = [op |-> "click", n |-> 1, known |-> 1, hits |-> <<2>>]
    /\ Len(entities) = 2
    /\ selectedEntityRef = <<EntityId(entities[2])>>
    /\ selectedOrigColorRef = <<FirstColor(entities[2])>>
    /\ Highlighted = {2}
    /\ entities[1].material = FirstColor(entities[1])
    /\ selectedSingle # <<>>

----------------------------------------------------------------------------
(* Claims about the viewport loop, checked under SpecViewport *)

\* a step that calls onBoundsChange
PublishTaken == publishes' # publishes

\* the bounding box of the camera's view, in units of 0.1 degree
BboxOf(view) ==
    [west |-> 5 * computeViewRectangle(view)[1].west,
     south |-> 5 * computeViewRectangle(view)[1].south,
     east |-> 5 * computeViewRectangle(view)[1].east,
     north |-> 5 * computeViewRectangle(view)[1].north]

\* a publish comes 500 ms or more after the latest move-end event, once for
\* that event, with the bounding box of the camera's view at that time
PublishDebounced ==
    PublishTaken =>
        /\ clock >= lastMoveEnd.at + Delay
        /\ ~lastMoveEnd.ran
        /\ publishes' = publishes + 1
        /\ mapBbox' = <<BboxOf(camera)>>

\* C27 as stated: a publish is debounced, and whenever the delay has run out
\* after the last move-end event of a burst, one bounding box is published.
C27_DebounceAlwaysPublishes ==
    [][/\ PublishDebounced
       /\ (\E due \in timers : TimerFires(due)) => PublishTaken]_vars

\* C27, amended: a publish is debounced, and when the delay has run out after
\* the last move-end event of a burst, one bounding box is published if the
\* camera then sees the ground, and none if it does not.
C27_DebounceWhenGroundVisible ==
    [][/\ PublishDebounced
       /\ (\E due \in timers : TimerFires(due))
             => (PublishTaken <=> computeViewRectangle(camera) # <<>>)]_vars

\* two move-end events 250 ms apart, the second one 500 ms ago, and one
\* publish: the box of the view the camera moved to after the second event
C27_Witness ==
    /\ clock = 750
    /\ lastMoveEnd = [at |-> 250, camera |-> "city", ran |-> TRUE]
    /\ camera = "strait"
    /\ publishes = 1
    /\ timers = {}
    /\ mapBbox = <<BboxOf("strait")>>

\* the camera has left the view of setView, or a move-end event was raised
\* after the viewer was created
CameraMoved == camera # "city" \/ lastMoveEnd.at # 0

\* C28: unless the camera is moved, a bounding box is eventually published;
\* and whenever a bounding box is published and the layer is enabled, the
\* layer's latest fetch was issued for that box and is not aborted.
C28_EagerFirstFetch ==
    /\ <>(mapBbox # <<>> \/ CameraMoved)
    /\ [](layer2dEnabled /\ mapBbox # <<>>
            => /\ fetches # <<>>
               /\ fetches[Len(fetches)].bbox = mapBbox[1]
               /\ ~fetches[Len(fetches)].aborted)

\* the camera was never moved: the call of handleMoveEnd at creation
\* published the box of the first view, and the enabled layer fetches it
C28_Witness ==
    /\ lastMoveEnd = [at |-> 0, camera |-> "city", ran |-> TRUE]
    /\ camera = "city"
    /\ publishes = 1
    /\ mapBbox = <<BboxOf("city")>>
    /\ layer2dEnabled
    /\ Len(fetches) = 1
    /\ fetches[1] = [bbox |-> BboxOf("city"), aborted |-> FALSE, status |-> "pending"]
    /\ loading2d

\* a fetch that was not aborted settles with an error
FailedFetchSettles ==
    \E k \in 1..Len(fetches) :
       /\ NotAborted(fetches[k])
       /\ FetchSettles(k, [kind |-> "error", data |-> NullData])

\* C29: a failed, non-aborted fetch of the 2D layer sets the layer's error
\* state and leaves the primitives rendered before it untouched.
C29_FailedFetchKeepsPrimitives ==
    [][FailedFetchSettles => (error2d' # <<>> /\ entities' = entities)]_vars

\* a fetch whose signal was aborted settles
CancelledFetchSettles ==
    \E k \in 1..Len(fetches) :
       /\ fetches[k].aborted
       /\ \E outcome \in FetchOutcomes(fetches[k]) : FetchSettles(k, outcome)

\* the sync pass k, superseded by a newer effect run, ends in this step
CancelledPassEnds(k) ==
    /\ passes[k].status = "pending"
    /\ passes'[k].status # "pending"
    /\ passes'[k].aborted

\* C30: cancellation is never an error. A fetch that settles after its signal
\* was aborted changes neither the error state, nor the data, nor the loading
\* flag; a sync pass that ends after its signal was aborted is resolved, not
\* rejected, and the processing flag keeps its value.
C30_CancellationIsNoError ==
    [][/\ CancelledFetchSettles => UNCHANGED <<error2d, data2d, loading2d>>
       /\ \A k \in 1..Len(passes) :
             CancelledPassEnds(k) =>
                /\ passes'[k].status = "resolved"
                /\ passes'[k].via = "abort"
                /\ processing2d' = processing2d]_vars

\* the first fetch was aborted and has settled, no error is shown and the
\* data of a later fetch is kept; the second sync pass ended by cancellation
\* while the third one is still being processed
C30_Witness ==
    /\ Len(fetches) = 3
    /\ fetches[1].aborted /\ fetches[1].status = "rejected"
    /\ error2d = <<>> /\ data2d # <<>>
    /\ Len(passes) = 3
    /\ passes[2].via = "abort" /\ passes[2].status = "resolved"
    /\ passes[3].status = "pending"
    /\ processing2d

\* the payload is an object whose type tag is FeatureCollection and whose
\* features member is a list
ValidPayload(body) ==
    /\ body # <<>>
    /\ body[1].kind = "object"
    /\ body[1].type = "FeatureCollection"
    /\ body[1].features = "array"

\* C31: a fetch operation rejects with a message when the status of the
\* response is no success or the payload is no feature collection with a
\* list of features, and returns the payload exactly when both checks pass.
C31_FetchValidates ==
    apiCall.result # <<>> =>
        LET res == apiCall.res[1]
            r == apiCall.result[1]
        IN  IF res.status \in 200..299 /\ ValidPayload(res.body)
            THEN r.status = "fulfilled" /\ r.value = res.body[1]
            ELSE /\ r.status = "rejected"
                 /\ r.error.text # ""
                 /\ res.status \notin 200..299 =>
                       r.error = [text |-> "Failed to fetch", endpoint |-> apiCall.op,
                                  status |-> res.status]

\* a success status with the right tag but features that is no list: rejected
C31_Witness ==
    /\ apiCall.op = "hdb-footprints"
    /\ apiCall.res = <<[status |-> 200,
                        body |-> <<Json("object", "FeatureCollection", "object")>>]>>
    /\ apiCall.result # <<>>
    /\ apiCall.result[1].status = "rejected"
    /\ apiCall.result[1].error.text = "Invalid GeoJSON: expected a FeatureCollection"


\* clearSelection ran in this step
ClearTaken == passes' = passes /\ lastOp'.op = "clear"

\* C32: no write goes to a destroyed container or primitive: every colour
\* that clearSelection writes back goes to a primitive that is still in the
\* container, and the container gains primitives only while it is alive.
C32_NoWriteToDestroyed ==
    [][/\ ClearTaken => \A k \in 1..Len(selectedEntities) : EntryInContainer(k)
       /\ Len(entities') > Len(entities) => dsRef = "live"]_vars


\* C33: cancellation is looked at between chunks only and a chunk runs to its
\* end: after every chunk the cursor of a pass is a multiple of the chunk
\* size or the number of features, and a pass that found its signal aborted
\* stopped at such a boundary.
C33_ChunkBoundaries ==
    \A k \in 1..Len(passes) :
       /\ passes[k].i % ChunkSize = 0 \/ passes[k].i = passes[k].data.n
       /\ passes[k].via = "abort" => passes[k].i % ChunkSize = 0


\* C34: two passes never write to the container concurrently: at every
\* moment, in every interleaving of frame callbacks, each primitive of the
\* container was added by the latest pass, and a frame callback of a
\* superseded pass adds nothing.
C34_OnlyLatestPassWrites ==
    /\ [](\A k \in 1..Len(entities) : entities[k].pass = Len(passes))
    /\ [][(frameQueue # <<>> /\ Len(passes') = Len(passes) /\ dsRef' = dsRef
             /\ Head(frameQueue) < Len(passes))
          => entities' = entities]_vars

\* pass 1 was superseded after its first chunk; its next frame callback came
\* while pass 2 was still adding primitives, and only pass 2's are there
C34_Witness ==
    /\ Len(passes) = 2
    /\ passes[1].via = "abort" /\ passes[1].i = ChunkSize
    /\ passes[2].status = "pending" /\ passes[2].i = ChunkSize
    /\ frameQueue = <<2>>
    /\ entities # <<>>


\* ceil(n / ChunkSize)
Chunks(n) == (n + ChunkSize - 1) \div ChunkSize

\* C35: a pass over N features that is not cancelled is never rejected; while
\* it is pending it has run frames + 1 chunks of ChunkSize features, features
\* remain and its next frame callback is scheduled; once resolved it has seen
\* every feature in ceil(N / ChunkSize) chunks (one if N is 0).
C35_UncancelledPassTerminates ==
    \A k \in 1..Len(passes) :
       (~passes[k].aborted /\ passes[k].via \notin {"nods", "idle"}) =>
          /\ passes[k].status # "rejected"
          /\ passes[k].status = "resolved" =>
                /\ passes[k].via = "done"
                /\ passes[k].i = passes[k].data.n
                /\ passes[k].frames + 1 =
                      IF passes[k].data.n = 0 THEN 1 ELSE Chunks(passes[k].data.n)
          /\ passes[k].status = "pending" =>
                /\ passes[k].i = ChunkSize * passes[k].frames
                /\ passes[k].i < passes[k].data.n
                /\ \E j \in 1..Len(frameQueue) : frameQueue[j] = k


\* C36: event suspension is balanced: a pass never has more resumeEvents than
\* suspendEvents calls, and at every yield point and once it is resolved, by
\* completion or by cancellation, it has made as many of the one as of the other.
C36_SuspensionBalanced ==
    \A k \in 1..Len(passes) :
       /\ passes[k].resumes <= passes[k].suspends
       /\ (passes[k].status = "resolved"
             \/ \E j \in 1..Len(frameQueue) : frameQueue[j] = k)
          => passes[k].suspends = passes[k].resumes

\* a pass cancelled after one chunk and a pass completed in two chunks
C36_Witness ==
    /\ Len(passes) = 2
    /\ passes[1].via = "abort" /\ passes[1].suspends = 1 /\ passes[1].resumes = 1
    /\ passes[2].via = "done" /\ passes[2].suspends = 2 /\ passes[2].resumes = 2


\* C37: at every moment between two handlers, every primitive of the 2D
\* container carries the layer tag '2d' and the properties of the feature it
\* was built from (an empty object for a feature without properties).
C37_PrimitivesCarryMetadata ==
    \A k \in 1..Len(entities) :
       /\ entities[k].layer = "2d"
       /\ entities[k].pass \in 1..Len(passes)
       /\ BuiltFrom(entities[k], entities[k].pass, passes[entities[k].pass].data)

\* the container holds the tagged primitive of a feature that has no
\* properties member
C37_Witness ==
    /\ passes # <<>>
    /\ \E k \in 1..Len(entities) :
          /\ ~FeatureAt(passes[Len(passes)].data, entities[k].feat).hasProps
          /\ entities[k].corridorProps = EmptyProps
          /\ entities[k].layer = "2d"


\* the priority values of the features of the collection that have one
CollectionValues == {PriorityOf(i).v : i \in {j \in 1..cData.n : HasValue(j)}}

\* C39: the range computed for a collection is null exactly when no feature
\* has a numeric priority; otherwise min <= max, both are priorities of
\* features of the collection, and every such priority lies in [min, max].
C39_PriorityRange ==
    (pcC = "range" /\ cRange = RangeOfCollection) =>
        /\ cRange.isNull <=> CollectionValues = {}
        /\ ~cRange.isNull =>
              /\ cRange.min <= cRange.max
              /\ cRange.min \in CollectionValues
              /\ cRange.max \in CollectionValues
              /\ \A v \in CollectionValues : cRange.min <= v /\ v <= cRange.max


\* C40: busy flags settle. Once the latest sync pass of the layer has settled,
\* the processing flag is false; once the latest fetch has settled, or the
\* layer is disabled, or there is no bounding box, the loading flag is false.
C40_BusyFlagsSettle ==
    /\ (dsRef = "live" /\ passes # <<>> /\ passes[Len(passes)].status # "pending")
          => ~processing2d
    /\ (\/ mapBbox = <<>>
        \/ ~layer2dEnabled
        \/ fetches # <<>> /\ fetches[Len(fetches)].status # "pending")
          => ~loading2d

\* a step in which the promise of a 2D fetch settles
Settles2d ==
    /\ Len(fetches') = Len(fetches)
    /\ \E k \in 1..Len(fetches) :
          fetches[k].status = "pending" /\ fetches'[k].status # "pending"

\* a step in which the promise of the 3D fetch settles
Settles3d == fetch3d # "settled" /\ fetch3d' = "settled"

\* C38: layers are independent. A step in which the fetch of the 2D layer
\* settles, with the render and the sync pass it causes, leaves the 3D
\* layer's container, data, loading, error and processing state as they
\* were, and a step of the 3D layer leaves those of the 2D layer as they were.
C38_LayersIndependent ==
    [][/\ Settles2d => UNCHANGED <<entities3d, data3d, loading3d, error3d, processing3d>>
       /\ Settles3d => UNCHANGED <<entities, data2d, loading2d, error2d, processing2d>>]_vars

====
